---------------------------- MODULE Spec2Model ----------------------------
(***************************************************************************)
(* A model of the iLink bridge (hannibalov/ilink):                         *)
(*                                                                         *)
(*   SpecMain    - startup in main(): the concurrent connection phase with *)
(*                 its 90 s races, followed by the sequential fallback.    *)
(*   SpecConn    - BLEManager.connectDevice's retry loop around            *)
(*                 ILinkDevice.connect and its discovery retry loop.       *)
(*   SpecSession - one ILinkDevice object under connect, disconnect, link  *)
(*                 loss, sendCommand and readState.                        *)
(*                                                                         *)
(* The three specifications share the module; each leaves the variables of *)
(* the other two unchanged.                                                *)
(***************************************************************************)
EXTENDS Integers, Sequences, FiniteSets, TLC

VARIABLES
  \* ---- main() ----
  mainPc,             \* position of main(): start, parallel, seqDelay, seqWait, running, exit
  scannedPeripherals, \* ids for which scanForAllDevices returned a peripheral
  parCall,            \* per device: the connectDevice call made in the concurrent phase
  race,               \* per device: the settled value of Promise.race([promise, timer])
  seqCall,            \* per device: the connectDevice call made in the sequential phase
  connectedDevices,   \* main's list of device objects
  connectedIds,       \* main's set of ids regarded as connected
  i,                  \* index of the sequential for loop
  devices,            \* bleManager.devices: id -> device object
  registered,         \* device objects handed to mqttBridge.registerDevice
  ready,              \* device objects whose session is Ready
  seqCalls,           \* history: number of sequential connectDevice calls per device
  readyAtSettle,      \* history: ids that were Ready when the concurrent phase settled
  \* ---- connectDevice / connect retry loops ----
  cdPc,               \* position inside connectDevice / connect
  attempt,            \* connectDevice's loop counter
  device,             \* connectDevice's local `device` is not null
  peripheralState,    \* peripheral.state of the handle in use
  discAttempt,        \* connect's discovery loop counter
  lastError,          \* connect's lastError (a message id)
  chars,              \* the iLink characteristics the last discovery try yielded
  connectReturn,      \* how the last device.connect call ended
  cdResult,           \* what connectDevice returned
  connectCalls,       \* history: number of device.connect calls made
  envKinds,           \* history: kinds of radio events met so far
  \* ---- one ILinkDevice session ----
  pc,                  \* position inside ILinkDevice.connect, or idle
  connArg,             \* the handle connect was called with
  peripheral,          \* this.peripheral: a handle, or 0 for null
  pstate,              \* per handle: peripheral.state
  observer,            \* per handle: a link-loss observer of the session is registered
  characteristic,      \* this.characteristic: the handle it belongs to, or 0 for null
  statusCharacteristic,\* this.statusCharacteristic: likewise
  characteristics,     \* this.characteristics: the iLink characteristics last discovered
  state,               \* this.state: the LightState
  reconnectAttempts,   \* this.reconnectAttempts
  discTry,             \* connect's discovery loop counter
  lastOp,              \* history: the API call that has just returned
  sessionReady,        \* history: the last connect returned true, and no disconnect()
                       \* or loss of its link has happened since
  \* ---- the reconnection timers of the session ----
  listeners,           \* per handle: number of disconnect handlers the session has
                       \* registered on it with once('disconnect')
  timers,              \* the delays for which a timer set by attemptReconnect is pending
  schedules,           \* history: the attemptReconnect calls of the last 'disconnect'
                       \* event, in order
  \* ---- calls of the codec ----
  codecPc,             \* input, encoded, roundtrip (encoded, then parsed), parsed
  codecCid,            \* the commandId given to encodeILinkCommand, <<high, low>>
  codecData,           \* the payload bytes given to encodeILinkCommand
  hex,                 \* the frame: what encodeILinkCommand returned, or what
                       \* parseILinkStatus was given
  codecParsed,         \* what parseILinkStatus returned
  command,             \* the hub command whose frame sendCommand encodes
  \* ---- the LightState value a caller of the session holds ----
  held,                \* the value the caller last took (<<>>: none)
  heldIsState,         \* it is the very object this.state
  heldColor,           \* its color is the very object this.state.color
  \* ---- BLEManager: scans, connectDevice calls, the device registry ----
  callPc,              \* per config id: position of its connectDevice call, or idle
  callDevice,          \* per call: its local `device`
  callAttempt,         \* per call: its loop counter `attempt`
  tempDisconnected,    \* per call: the entries of tempDisconnected still to reconnect
  calls,               \* history: number of connectDevice calls made per config id
  scanWait,            \* per call: its scanForDevices call waits for the scan timer
                       \* ("timer"), has returned [] at once ("empty"), or none
  isScanning,          \* this.isScanning
  scanning,            \* the radio is scanning (noble.startScanning without stop)
  linked,              \* the device objects whose isConnected() is true
  mgrOp,               \* history: the manager call that has just returned
  deviceConfigs        \* this.deviceConfigs: the ids with a stored config

mainVars == <<mainPc, scannedPeripherals, parCall, race, seqCall, connectedDevices,
              connectedIds, i, devices, registered, ready, seqCalls, readyAtSettle>>
connVars == <<cdPc, attempt, device, peripheralState, discAttempt, lastError, chars,
              connectReturn, cdResult, connectCalls, envKinds>>
sessVars == <<pc, connArg, peripheral, pstate, observer, characteristic,
              statusCharacteristic, characteristics, state, reconnectAttempts, discTry,
              lastOp, sessionReady, listeners, timers, schedules>>
supVars == <<listeners, timers, schedules>>
codecVars == <<codecPc, codecCid, codecData, hex, codecParsed, command>>
heldVars == <<held, heldIsState, heldColor>>
mgrVars == <<callPc, callDevice, callAttempt, tempDisconnected, calls, scanWait, isScanning,
             scanning, linked, mgrOp, deviceConfigs>>
mainRest == <<mainPc, scannedPeripherals, parCall, race, seqCall, connectedDevices,
              connectedIds, i, registered, ready, seqCalls, readyAtSettle>>
vars == <<mainVars, connVars, sessVars, codecVars, heldVars, mgrVars>>

-----------------------------------------------------------------------------
(* Bounds of the model *)

NumDevices == 2
MaxHandles == 1
MaxListeners == 6     \* disconnect handlers registered on one handle
MaxPayloadLen == 4    \* bytes of payload given to encodeILinkCommand
HubMargin == 2        \* how far hub brightness is taken outside 0..255
MaxCalls == 2         \* connectDevice calls per config id

-----------------------------------------------------------------------------
(***************************************************************************)
(* main(): concurrent phase and sequential fallback.                       *)
(***************************************************************************)

Devices == 1..NumDevices          \* config.devices, in configuration order
NoDev == <<0, "none">>
ParObj(d) == <<d, "par">>         \* the ILinkDevice created by the concurrent call
SeqObj(d) == <<d, "seq">>         \* the ILinkDevice created by the sequential call

InFlight == {ParObj(d) : d \in {x \in Devices : parCall[x] = "pending"}}
            \cup {SeqObj(d) : d \in {x \in Devices : seqCall[x] = "pending"}}

ReadyIds == {d \in Devices : ParObj(d) \in ready \/ SeqObj(d) \in ready}

\* All races have settled and main's continuation after Promise.allSettled has
\* not run yet.  The continuation runs in the microtasks of the event that
\* settled the last race, so no other event can come in between.
SettlePending == mainPc = "parallel" /\ \A d \in Devices : race[d] # "pending"

MainInit ==
  /\ mainPc = "start"
  /\ scannedPeripherals \in SUBSET Devices
  /\ parCall = [d \in Devices |-> "none"]
  /\ race = [d \in Devices |-> "none"]
  /\ seqCall = [d \in Devices |-> "none"]
  /\ connectedDevices = <<>>
  /\ connectedIds = {}
  /\ i = 0
  /\ devices = [d \in Devices |-> NoDev]
  /\ registered = {}
  /\ ready = {}
  /\ seqCalls = [d \in Devices |-> 0]
  /\ readyAtSettle = {}

\* config.devices.map(async ...) and the races: a device without a scanned
\* peripheral resolves to null at once, the others call connectDevice.
StartParallel ==
  /\ mainPc = "start"
  /\ mainPc' = "parallel"
  /\ parCall' = [d \in Devices |-> IF d \in scannedPeripherals THEN "pending" ELSE "null"]
  /\ race' = [d \in Devices |-> IF d \in scannedPeripherals THEN "pending" ELSE "null"]
  /\ UNCHANGED <<scannedPeripherals, seqCall, connectedDevices, connectedIds, i, devices,
                 registered, ready, seqCalls, readyAtSettle>>
  /\ UNCHANGED <<connVars, sessVars, codecVars, heldVars, mgrVars>>

\* The concurrent connectDevice call of d returns a device: the manager has
\* stored it, and the async function registers it with the bus gateway.  The
\* race takes the value only when the timer has not settled it before.
ParCallSucceed(d) ==
  /\ ~SettlePending
  /\ mainPc # "exit"
  /\ parCall[d] = "pending"
  /\ parCall' = [parCall EXCEPT ![d] = "device"]
  /\ race' = [race EXCEPT ![d] = IF race[d] = "pending" THEN "device" ELSE race[d]]
  /\ devices' = [devices EXCEPT ![d] = ParObj(d)]
  /\ registered' = registered \cup {ParObj(d)}
  /\ ready' = ready \cup {ParObj(d)}
  /\ UNCHANGED <<mainPc, scannedPeripherals, seqCall, connectedDevices, connectedIds, i,
                 seqCalls, readyAtSettle>>
  /\ UNCHANGED <<connVars, sessVars, codecVars, heldVars, mgrVars>>

ParCallFail(d) ==
  /\ ~SettlePending
  /\ mainPc # "exit"
  /\ parCall[d] = "pending"
  /\ parCall' = [parCall EXCEPT ![d] = "null"]
  /\ race' = [race EXCEPT ![d] = IF race[d] = "pending" THEN "null" ELSE race[d]]
  /\ UNCHANGED <<mainPc, scannedPeripherals, seqCall, connectedDevices, connectedIds, i,
                 devices, registered, ready, seqCalls, readyAtSettle>>
  /\ UNCHANGED <<connVars, sessVars, codecVars, heldVars, mgrVars>>

\* The 90 s timers.  They are created in one synchronous map with one delay,
\* so they expire in the same timer phase: every race still pending resolves
\* to null.  The connectDevice calls themselves are not cancelled.
ConnectionTimeout ==
  /\ mainPc = "parallel"
  /\ \E d \in Devices : race[d] = "pending"
  /\ race' = [d \in Devices |-> IF race[d] = "pending" THEN "null" ELSE race[d]]
  /\ UNCHANGED <<mainPc, scannedPeripherals, parCall, seqCall, connectedDevices,
                 connectedIds, i, devices, registered, ready, seqCalls, readyAtSettle>>
  /\ UNCHANGED <<connVars, sessVars, codecVars, heldVars, mgrVars>>

\* Collect successful connections from the settled races.
CollectConnected_m(r) ==
  LET F[k \in 0..NumDevices] ==
        IF k = 0 THEN <<>>
        ELSE IF r[k] = "device" /\ k < NumDevices THEN Append(F[k-1], ParObj(k)) ELSE F[k-1]
  IN F[NumDevices]

CollectConnected(r) ==
  LET F[k \in 0..NumDevices] ==
        IF k = 0 THEN <<>>
        ELSE IF r[k] = "device" THEN Append(F[k-1], ParObj(k)) ELSE F[k-1]
  IN F[NumDevices]

Includes(s, x) == \E k \in 1..Len(s) : s[k] = x

\* The guard of the sequential fallback.
FallbackNeeded(cd) == Len(cd) < NumDevices

\* Find which device configs are already connected.
ComputeConnectedIds(cd) ==
  {d \in Devices : devices[d] # NoDev /\ Includes(cd, devices[d])}

\* The two `continue`s of the sequential loop.
Skipped_m(d, ids) == d \notin scannedPeripherals

Skipped(d, ids) == d \in ids \/ d \notin scannedPeripherals

NextTarget(j, ids) ==
  LET c == {k \in j..NumDevices : ~Skipped(k, ids)}
  IN IF c = {} THEN 0 ELSE CHOOSE k \in c : \A m \in c : k <= m

\* The sequential loop from index j up to its next await (the 3 s delay, or
\* the connectDevice call when nothing is connected yet), or to the end of
\* main's startup.
LoopFrom(j, ids, cd, sc) ==
  LET t == NextTarget(j, ids) IN
  IF t = 0
  THEN /\ mainPc' = IF Len(cd) = 0 THEN "exit" ELSE "running"
       /\ i' = NumDevices + 1
       /\ seqCall' = sc
       /\ UNCHANGED seqCalls
  ELSE /\ i' = t
       /\ IF Len(cd) > 0
          THEN /\ mainPc' = "seqDelay"
               /\ seqCall' = sc
               /\ UNCHANGED seqCalls
          ELSE /\ mainPc' = "seqWait"
               /\ seqCall' = [sc EXCEPT ![t] = "pending"]
               /\ seqCalls' = [seqCalls EXCEPT ![t] = @ + 1]

\* main's continuation after Promise.allSettled.
Settle ==
  /\ SettlePending
  /\ LET cd == CollectConnected(race) IN
     /\ connectedDevices' = cd
     /\ readyAtSettle' = ReadyIds
     /\ IF FallbackNeeded(cd)
        THEN /\ connectedIds' = ComputeConnectedIds(cd)
             /\ LoopFrom(1, ComputeConnectedIds(cd), cd, seqCall)
        ELSE /\ mainPc' = "running"
             /\ UNCHANGED <<connectedIds, i, seqCall, seqCalls>>
  /\ UNCHANGED <<scannedPeripherals, parCall, race, devices, registered, ready>>
  /\ UNCHANGED <<connVars, sessVars, codecVars, heldVars, mgrVars>>

\* The 3 s delay before a sequential attempt, then the connectDevice call.
SeqDelayDone ==
  /\ mainPc = "seqDelay"
  /\ mainPc' = "seqWait"
  /\ seqCall' = [seqCall EXCEPT ![i] = "pending"]
  /\ seqCalls' = [seqCalls EXCEPT ![i] = @ + 1]
  /\ UNCHANGED <<scannedPeripherals, parCall, race, connectedDevices, connectedIds, i,
                 devices, registered, ready, readyAtSettle>>
  /\ UNCHANGED <<connVars, sessVars, codecVars, heldVars, mgrVars>>

SeqCallSucceed ==
  /\ mainPc = "seqWait"
  /\ seqCall[i] = "pending"
  /\ devices' = [devices EXCEPT ![i] = SeqObj(i)]
  /\ registered' = registered \cup {SeqObj(i)}
  /\ ready' = ready \cup {SeqObj(i)}
  /\ connectedDevices' = Append(connectedDevices, SeqObj(i))
  /\ LoopFrom(i + 1, connectedIds, Append(connectedDevices, SeqObj(i)),
              [seqCall EXCEPT ![i] = "device"])
  /\ UNCHANGED <<scannedPeripherals, parCall, race, connectedIds, readyAtSettle>>
  /\ UNCHANGED <<connVars, sessVars, codecVars, heldVars, mgrVars>>

SeqCallFail ==
  /\ mainPc = "seqWait"
  /\ seqCall[i] = "pending"
  /\ LoopFrom(i + 1, connectedIds, connectedDevices, [seqCall EXCEPT ![i] = "null"])
  /\ UNCHANGED <<scannedPeripherals, parCall, race, connectedDevices, connectedIds,
                 devices, registered, ready, readyAtSettle>>
  /\ UNCHANGED <<connVars, sessVars, codecVars, heldVars, mgrVars>>

\* The link of a Ready session drops: its link-loss observer clears the
\* session (attemptReconnect schedules nothing that reconnects).
MainLinkLoss(o) ==
  /\ ~SettlePending
  /\ mainPc # "exit"
  /\ o \in ready
  /\ ready' = ready \ {o}
  /\ UNCHANGED <<mainPc, scannedPeripherals, parCall, race, seqCall, connectedDevices,
                 connectedIds, i, devices, registered, seqCalls, readyAtSettle>>
  /\ UNCHANGED <<connVars, sessVars, codecVars, heldVars, mgrVars>>

NextMain ==
  \/ StartParallel
  \/ \E d \in Devices : ParCallSucceed(d)
  \/ \E d \in Devices : ParCallFail(d)
  \/ ConnectionTimeout
  \/ Settle
  \/ SeqDelayDone
  \/ SeqCallSucceed
  \/ SeqCallFail
  \/ \E o \in ready : MainLinkLoss(o)

-----------------------------------------------------------------------------
(***************************************************************************)
(* BLEManager.connectDevice (retry loop) around ILinkDevice.connect.       *)
(***************************************************************************)

maxConnectionAttempts == 3
maxRetries == 5

\* Error messages, as the words the code puts in them.
Msg(e) ==
  CASE e = "connectTimeout"  -> <<"Connection", "timeout", "after", "60", "seconds">>
    [] e = "connectRejected" -> <<"connect", "failed">>
    [] e = "immediate"       -> <<"Peripheral", "disconnected", "immediately", "after", "connection">>
    [] e = "notConnected"    -> <<"Peripheral", "not", "connected", "before", "discovery">>
    [] e = "needFresh"       -> <<"Peripheral", "disconnected", "-", "need", "fresh", "reference">>
    [] e = "discDuring"      -> <<"Peripheral", "disconnected", "during", "service", "discovery:">>
    [] e = "svcTimeout"      -> <<"Service", "discovery", "timeout", "after", "5", "seconds">>
    [] e = "svcTimeoutDisc"  -> <<"Peripheral", "disconnected", "during", "service", "discovery", "timeout">>
    [] e = "svcDisc"         -> <<"Peripheral", "disconnected", "during", "service", "discovery">>
    [] e = "svcFailed"       -> <<"Service", "discovery", "failed:">>
    [] e = "noService"       -> <<"iLink", "service", "a032", "not", "found">>
    [] e = "chrTimeout"      -> <<"Characteristic", "discovery", "timeout", "for", "service">>
    [] e = "chrTimeoutDisc"  -> <<"Peripheral", "disconnected", "during", "characteristic", "discovery", "timeout">>
    [] e = "chrDisc"         -> <<"Peripheral", "disconnected", "during", "characteristic", "discovery">>
    [] e = "chrFailed"       -> <<"Characteristic", "discovery", "failed:">>
    [] e = "noChars"         -> <<"No", "iLink", "characteristics", "found">>
    [] e = "retryScanMiss"   -> <<"Device", "not", "found", "during", "retry", "scan">>
    [] OTHER                 -> <<>>

\* String.prototype.includes, on words.
MsgIncludes(m, phrase) ==
  \E k \in 0..(Len(m) - Len(phrase)) :
    \A j \in 1..Len(phrase) : m[k + j] = phrase[j]

isRecoverable(e) ==
  \/ MsgIncludes(Msg(e), <<"need", "fresh", "reference">>)
  \/ MsgIncludes(Msg(e), <<"disconnected">>)
  \/ MsgIncludes(Msg(e), <<"timeout">>)

NoChars == {"none"}       \* no discovery result yet in this try

ConnInit ==
  /\ cdPc = "scan"
  /\ attempt = 0
  /\ device = FALSE
  /\ peripheralState = "disconnected"
  /\ discAttempt = 0
  /\ lastError = "none"
  /\ chars = NoChars
  /\ connectReturn = "none"
  /\ cdResult = "none"
  /\ connectCalls = 0
  /\ envKinds = {}

\* connectDevice calls device.connect(peripheral): a device object exists, and
\* connect asks for a link unless the handle is connected already.
BeginConnect(a, ps) ==
  /\ attempt' = a
  /\ device' = TRUE
  /\ connectCalls' = connectCalls + 1
  /\ connectReturn' = "none"
  /\ chars' = NoChars
  /\ lastError' = "none"
  /\ peripheralState' = IF ps = "connected" THEN "connected" ELSE "connecting"
  /\ cdPc' = IF ps = "connected" THEN "verify" ELSE "link"
  /\ discAttempt' = 0
  /\ cdResult' = cdResult

\* connectDevice's catch for an error with message id e.
AfterThrow(e) ==
  IF isRecoverable(e) /\ attempt < maxConnectionAttempts
  THEN /\ cdPc' = "retry"
       /\ attempt' = attempt + 1
       /\ UNCHANGED cdResult
  ELSE /\ cdResult' = "null"
       /\ cdPc' = "done"
       /\ UNCHANGED attempt

\* connectDevice after device.connect has ended with `ret` (true, false, or
\* an error id that connect rethrew), the link being in state ps.
AfterConnect(ret, ps) ==
  /\ connectReturn' = ret
  /\ peripheralState' = ps
  /\ IF ret = "true"
     THEN /\ cdResult' = "device"
          /\ cdPc' = "done"
          /\ UNCHANGED attempt
     ELSE IF ret = "false"
     THEN IF attempt < maxConnectionAttempts
          THEN /\ cdPc' = "retry"
               /\ attempt' = attempt + 1
               /\ UNCHANGED cdResult
          ELSE /\ cdResult' = "null"
               /\ cdPc' = "done"
               /\ UNCHANGED attempt
     ELSE AfterThrow(ret)

\* connect's outer catch: tear the link down if it is connected, rethrow.
ConnectThrows(e) ==
  AfterConnect(e, IF peripheralState = "connected" THEN "disconnected" ELSE peripheralState)

\* The catch of the discovery loop, for try number discAttempt.
InnerCatch(e) ==
  /\ lastError' = e
  /\ IF peripheralState # "connected"
     THEN /\ ConnectThrows(IF discAttempt = maxRetries THEN "discDuring" ELSE "needFresh")
          /\ UNCHANGED discAttempt
     ELSE IF discAttempt = maxRetries
     THEN /\ ConnectThrows(e)
          /\ UNCHANGED discAttempt
     ELSE /\ discAttempt' = discAttempt + 1
          /\ cdPc' = "discDelay"
          /\ UNCHANGED <<attempt, peripheralState, connectReturn, cdResult>>

\* The initial scan and peripheral matching.
InitialScan(found) ==
  /\ cdPc = "scan"
  /\ IF found
     THEN /\ BeginConnect(1, "disconnected")
          /\ UNCHANGED envKinds
     ELSE /\ cdResult' = "null"
          /\ cdPc' = "done"
          /\ envKinds' = envKinds \cup {"scanMiss"}
          /\ UNCHANGED <<attempt, device, peripheralState, discAttempt, lastError, chars,
                         connectReturn, connectCalls>>
  /\ UNCHANGED <<mainVars, sessVars, codecVars, heldVars, mgrVars>>

\* Top of a later iteration: disconnect and drop the device object, wait,
\* re-scan for a fresh peripheral.
Retry(found) ==
  /\ cdPc = "retry"
  /\ IF found
     THEN /\ BeginConnect(attempt, "disconnected")
          /\ UNCHANGED envKinds
     ELSE /\ device' = FALSE
          /\ chars' = NoChars
          /\ peripheralState' = "disconnected"
          /\ AfterThrow("retryScanMiss")
          /\ envKinds' = envKinds \cup {"scanMiss"}
          /\ UNCHANGED <<discAttempt, lastError, connectReturn, connectCalls>>
  /\ UNCHANGED <<mainVars, sessVars, codecVars, heldVars, mgrVars>>

\* peripheral.connectAsync() resolves before the 60 s timer.
LinkUp ==
  /\ cdPc = "link"
  /\ peripheralState' = "connected"
  /\ cdPc' = "verify"
  /\ UNCHANGED <<attempt, device, discAttempt, lastError, chars, connectReturn, cdResult,
                 connectCalls, envKinds>>
  /\ UNCHANGED <<mainVars, sessVars, codecVars, heldVars, mgrVars>>

\* The 60 s timer wins the race.
LinkTimeout ==
  /\ cdPc = "link"
  /\ ConnectThrows("connectTimeout")
  /\ envKinds' = envKinds \cup {"linkTimeout"}
  /\ UNCHANGED <<device, discAttempt, lastError, chars, connectCalls>>
  /\ UNCHANGED <<mainVars, sessVars, codecVars, heldVars, mgrVars>>

\* peripheral.connectAsync() rejects.
LinkRejected ==
  /\ cdPc = "link"
  /\ AfterConnect("connectRejected", "disconnected")
  /\ envKinds' = envKinds \cup {"linkRejected"}
  /\ UNCHANGED <<device, discAttempt, lastError, chars, connectCalls>>
  /\ UNCHANGED <<mainVars, sessVars, codecVars, heldVars, mgrVars>>

\* The link drops while connect is running.
LinkDrop ==
  /\ cdPc \in {"verify", "discDelay", "svc", "chr", "initialRead"}
  /\ peripheralState = "connected"
  /\ peripheralState' = "disconnected"
  /\ envKinds' = envKinds \cup {"linkDrop"}
  /\ UNCHANGED <<cdPc, attempt, device, discAttempt, lastError, chars, connectReturn,
                 cdResult, connectCalls>>
  /\ UNCHANGED <<mainVars, sessVars, codecVars, heldVars, mgrVars>>

\* Verify connection state immediately after connect.
Verify ==
  /\ cdPc = "verify"
  /\ IF peripheralState # "connected"
     THEN /\ ConnectThrows("immediate")
          /\ UNCHANGED discAttempt
     ELSE /\ discAttempt' = 1
          /\ cdPc' = "discDelay"
          /\ UNCHANGED <<attempt, peripheralState, connectReturn, cdResult>>
  /\ UNCHANGED <<device, lastError, chars, connectCalls, envKinds>>
  /\ UNCHANGED <<mainVars, sessVars, codecVars, heldVars, mgrVars>>

\* The wait before a discovery try (MTU exchange and 100 ms before the first,
\* the retry delay before the others), then the connection checks.
DiscDelayDone ==
  /\ cdPc = "discDelay"
  /\ chars' = NoChars
  /\ IF peripheralState # "connected"
     THEN InnerCatch(IF discAttempt > 1 THEN "needFresh" ELSE "notConnected")
     ELSE /\ cdPc' = "svc"
          /\ UNCHANGED <<attempt, peripheralState, discAttempt, lastError, connectReturn,
                         cdResult>>
  /\ UNCHANGED <<device, connectCalls, envKinds>>
  /\ UNCHANGED <<mainVars, sessVars, codecVars, heldVars, mgrVars>>

\* discoverServices([a032]) settles: its callback, or the 5 s timer.
SvcResult(out) ==
  /\ cdPc = "svc"
  /\ envKinds' = IF out = "ok" THEN envKinds
                 ELSE envKinds \cup {CASE out = "timeout" -> "svcTimeout"
                                       [] out = "error" -> "svcError"
                                       [] OTHER -> "noService"}
  /\ IF out = "timeout"
     THEN InnerCatch(IF peripheralState = "connected" THEN "svcTimeout" ELSE "svcTimeoutDisc")
     ELSE IF peripheralState # "connected" THEN InnerCatch("svcDisc")
     ELSE IF out = "error" THEN InnerCatch("svcFailed")
     ELSE IF out = "noService" THEN InnerCatch("noService")
     ELSE /\ cdPc' = "chr"
          /\ UNCHANGED <<attempt, peripheralState, discAttempt, lastError, connectReturn,
                         cdResult>>
  /\ UNCHANGED <<device, chars, connectCalls>>
  /\ UNCHANGED <<mainVars, sessVars, codecVars, heldVars, mgrVars>>

\* After the discovery loop: the target characteristic must be there.
\* Without it connect disconnects and returns false; with it the session
\* caches the handles and reads the initial state.
AfterLoop(found) ==
  IF "cmd" \notin found
  THEN AfterConnect("false", "disconnected")
  ELSE /\ cdPc' = "initialRead"
       /\ UNCHANGED <<attempt, peripheralState, connectReturn, cdResult>>

\* service.discoverCharacteristics settles: its callback, or the 5 s timer.
\* A timeout or an error with the link up is swallowed and leaves no
\* characteristics.
ChrResult(out, found) ==
  /\ cdPc = "chr"
  /\ envKinds' = envKinds \cup {CASE out = "timeout" -> "chrTimeout"
                                  [] out = "error" -> "chrError"
                                  [] OTHER -> "chars"}
  /\ IF out = "timeout" /\ peripheralState # "connected"
     THEN InnerCatch("chrTimeoutDisc") /\ UNCHANGED chars
     ELSE IF out # "timeout" /\ peripheralState # "connected"
     THEN InnerCatch("chrDisc") /\ UNCHANGED chars
     ELSE IF out \in {"timeout", "error"}
     THEN InnerCatch("noChars") /\ UNCHANGED chars
     ELSE /\ chars' = found
          /\ IF found = {}
             THEN InnerCatch("noChars")
             ELSE AfterLoop(found) /\ UNCHANGED <<discAttempt, lastError>>
  /\ UNCHANGED <<device, connectCalls>>
  /\ UNCHANGED <<mainVars, sessVars, codecVars, heldVars, mgrVars>>

\* The initial readState ends (its result does not matter): connect returns
\* true.
InitialReadDone ==
  /\ cdPc = "initialRead"
  /\ AfterConnect("true", peripheralState)
  /\ UNCHANGED <<device, discAttempt, lastError, chars, connectCalls, envKinds>>
  /\ UNCHANGED <<mainVars, sessVars, codecVars, heldVars, mgrVars>>

NextConn ==
  \/ \E found \in BOOLEAN : InitialScan(found)
  \/ \E found \in BOOLEAN : Retry(found)
  \/ LinkUp
  \/ LinkTimeout
  \/ LinkRejected
  \/ LinkDrop
  \/ Verify
  \/ DiscDelayDone
  \/ \E out \in {"ok", "timeout", "error", "noService"} : SvcResult(out)
  \/ \E out \in {"ok", "timeout", "error"}, found \in SUBSET {"cmd", "status"} :
       ChrResult(out, found)
  \/ InitialReadDone

-----------------------------------------------------------------------------
(***************************************************************************)
(* The codec: encodeILinkCommand and parseILinkStatus, on bytes.           *)
(***************************************************************************)

NaN == 0 - 1          \* stands for JavaScript's NaN

RECURSIVE Sum(_)
Sum(bytes) == IF bytes = <<>> THEN 0 ELSE bytes[1] + Sum(Tail(bytes))

RECURSIVE ParseInt(_)
\* parseInt(hex, 16) of the hex text of `bytes`
ParseInt(bytes) ==
  IF bytes = <<>> THEN NaN
  ELSE IF Len(bytes) = 1 THEN bytes[1]
  ELSE ParseInt(SubSeq(bytes, 1, Len(bytes) - 1)) * 256 + bytes[Len(bytes)]

encodeILinkCommand_m(cid, data) ==
  LET len == Len(data)
      sum == len + cid[1] + cid[2] + Sum(data)
      checksum == 256 - (sum % 256)
  IN <<85, 170, len, cid[1], cid[2]>> \o data \o <<checksum>>

\* cid is <<high byte, low byte>>, data the payload bytes.
encodeILinkCommand(cid, data) ==
  LET len == Len(data)
      sum == len + cid[1] + cid[2] + Sum(data)
      checksum == (256 - (sum % 256)) % 256
  IN <<85, 170, len, cid[1], cid[2]>> \o data \o <<checksum>>

\* String.prototype.substring on the hex text, in bytes: both ends are
\* clamped to the text and swapped when the first is the larger.
Substring(bytes, a, b) ==
  LET ca == IF a < 0 THEN 0 ELSE IF a > Len(bytes) THEN Len(bytes) ELSE a
      cb == IF b < 0 THEN 0 ELSE IF b > Len(bytes) THEN Len(bytes) ELSE b
      lo == IF ca <= cb THEN ca ELSE cb
      hi == IF ca <= cb THEN cb ELSE ca
  IN SubSeq(bytes, lo + 1, hi)

\* Math.floor(x / 2.55)
Scale(x) == IF x = NaN THEN NaN ELSE (x * 100) \div 255

\* Numbers of more than three significant bytes are kept as their base-256
\* digits, most significant first.
RECURSIVE Strip(_)
Strip(digits) ==
  IF digits # <<>> /\ digits[1] = 0 THEN Strip(Tail(digits)) ELSE digits

\* Quotient digits and remainder of the number `digits` divided by 51.
RECURSIVE DivMod51(_)
DivMod51(digits) ==
  IF digits = <<>> THEN [q |-> <<>>, r |-> 0]
  ELSE LET front == DivMod51(SubSeq(digits, 1, Len(digits) - 1))
           t == front.r * 256 + digits[Len(digits)]
       IN [q |-> Append(front.q, t \div 51), r |-> t % 51]

\* digits * m + c
RECURSIVE MulAdd(_, _, _)
MulAdd(digits, m, c) ==
  IF digits = <<>>
  THEN IF c = 0 THEN <<>> ELSE Append(MulAdd(<<>>, m, c \div 256), c % 256)
  ELSE LET t == digits[Len(digits)] * m + c
       IN Append(MulAdd(SubSeq(digits, 1, Len(digits) - 1), m, t \div 256), t % 256)

\* Math.floor(parseInt(data, 16) / 2.55): x / 2.55 is 20x / 51.
ScaleParsed(data) ==
  IF Len(Strip(data)) <= 3 THEN Scale(ParseInt(data))
  ELSE LET d == DivMod51(data) IN Strip(MulAdd(d.q, 20, (20 * d.r) \div 51))

ByteAt(bytes, k) == IF k <= Len(bytes) THEN bytes[k] ELSE NaN

parseILinkStatus(frame) ==
  IF ~(Len(frame) >= 2 /\ frame[1] = 85 /\ frame[2] = 170) THEN <<>>
  ELSE
    LET cid == Substring(frame, 3, 5)
        data == Substring(frame, 5, Len(frame) - 1)
    IN IF cid = <<136, 21>> \/ cid = <<136, 20>>
       THEN IF Len(data) < 4 THEN <<>>
            ELSE [power |-> TRUE,
                  brightness |-> IF Scale(data[4]) = 0 THEN 100 ELSE Scale(data[4]),
                  color |-> <<data[1], data[2], data[3]>>]
       ELSE IF cid = <<8, 5>> THEN [power |-> (data = <<1>>)]
       ELSE IF cid = <<8, 1>> THEN [power |-> TRUE, brightness |-> ScaleParsed(data)]
       ELSE IF cid = <<8, 2>>
       THEN [power |-> TRUE,
             color |-> <<ByteAt(data, 1), ByteAt(data, 2), ByteAt(data, 3)>>]
       ELSE <<>>

\* { ...s, ...f }
Merge(s, f) == [k \in DOMAIN s \cup DOMAIN f |-> IF k \in DOMAIN f THEN f[k] ELSE s[k]]

-----------------------------------------------------------------------------
(***************************************************************************)
(* One ILinkDevice session.                                                *)
(***************************************************************************)

maxDiscoveryRetries == 3
maxReconnectAttempts == 5

Handles == 1..MaxHandles

\* Hub commands: any subset of state, brightness and color.
HubBrightness == {128}
HubColors == {<<255, 0, 0>>}
Commands ==
  {Merge(Merge(a, b), c) :
     a \in {<<>>} \cup {[state |-> v] : v \in {"ON", "OFF"}},
     b \in {<<>>} \cup {[brightness |-> v] : v \in HubBrightness},
     c \in {<<>>} \cup {[color |-> v] : v \in HubColors}}

\* What a read of the status characteristic may bring: a frame, or an error.
StatusFrames ==
  {encodeILinkCommand(<<8, 5>>, <<1>>), encodeILinkCommand(<<8, 1>>, <<128>>),
   encodeILinkCommand(<<136, 21>>, <<255, 0, 0, 128>>), <<18, 52, 86>>}
ReadOutcomes == StatusFrames \cup {<<>>}      \* <<>>: readAsync rejects

NoOp == [op |-> "none"]

SessInit ==
  /\ pc = "idle"
  /\ connArg = 0
  /\ peripheral = 0
  /\ pstate = [h \in Handles |-> "disconnected"]
  /\ observer = [h \in Handles |-> FALSE]
  /\ characteristic = 0
  /\ statusCharacteristic = 0
  /\ characteristics = {}
  /\ state = [power |-> FALSE, brightness |-> 100]
  /\ reconnectAttempts = 0
  /\ discTry = 0
  /\ lastOp = NoOp
  /\ sessionReady = FALSE

isConnected == characteristic # 0 /\ peripheral # 0

\* peripheral.disconnectAsync() on handle h (0: there is none).
Disconnected(ps, h) == IF h = 0 THEN ps ELSE [ps EXCEPT ![h] = "disconnected"]

\* connect returning true makes the session Ready; a connect that is running
\* or has returned false leaves it not Ready.
ReadyAfterConnectStep ==
  sessionReady' = IF lastOp' # NoOp THEN lastOp'.result ELSE FALSE

\* connect's catch: disconnect whatever this.peripheral is, return false.
ConnectFails ==
  /\ pstate' = Disconnected(pstate, peripheral)
  /\ pc' = "idle"
  /\ lastOp' = [op |-> "connect", result |-> FALSE]
  /\ discTry' = 0

\* Lines 37-53 after the link is there: the quick check, then discovery.
AfterLink(ps) ==
  IF peripheral' = 0 \/ ps[peripheral'] # "connected"
  THEN /\ pstate' = Disconnected(ps, peripheral')
       /\ pc' = "idle"
       /\ lastOp' = [op |-> "connect", result |-> FALSE]
       /\ discTry' = 0
  ELSE /\ pstate' = ps
       /\ pc' = "disc"
       /\ discTry' = 1
       /\ lastOp' = NoOp

\* connect(peripheral) up to its first await.
Connect(h) ==
  /\ lastOp = NoOp
  /\ pc = "idle"
  /\ connArg' = h
  /\ peripheral' = h
  /\ IF pstate[h] # "connected"
     THEN /\ pstate' = [pstate EXCEPT ![h] = "connecting"]
          /\ pc' = "link"
          /\ lastOp' = NoOp
          /\ UNCHANGED discTry
     ELSE AfterLink(pstate)
  /\ UNCHANGED <<observer, characteristic, statusCharacteristic, characteristics, state,
                 reconnectAttempts>>
  /\ ReadyAfterConnectStep
  /\ UNCHANGED <<mainVars, connVars, supVars, codecVars, heldVars, mgrVars>>

\* connectAsync resolves before the 15 s timer.
SessLinkUp ==
  /\ lastOp = NoOp
  /\ pc = "link"
  /\ peripheral' = peripheral
  /\ AfterLink([pstate EXCEPT ![connArg] = "connected"])
  /\ UNCHANGED <<connArg, observer, characteristic, statusCharacteristic, characteristics,
                 state, reconnectAttempts>>
  /\ ReadyAfterConnectStep
  /\ UNCHANGED <<mainVars, connVars, supVars, codecVars, heldVars, mgrVars>>

\* The 15 s timer wins, or connectAsync rejects.
SessLinkFails ==
  /\ lastOp = NoOp
  /\ pc = "link"
  /\ ConnectFails
  /\ UNCHANGED <<connArg, peripheral, observer, characteristic, statusCharacteristic,
                 characteristics, state, reconnectAttempts>>
  /\ ReadyAfterConnectStep
  /\ UNCHANGED <<mainVars, connVars, supVars, codecVars, heldVars, mgrVars>>

\* readState()
ReadStateGuard == statusCharacteristic # 0 /\ peripheral # 0 /\ pstate[peripheral] = "connected"

ReadResult_m(out) ==
  LET parsed == IF out = <<>> THEN <<>> ELSE parseILinkStatus(out) IN
  IF DOMAIN parsed # {} THEN parsed ELSE state

ReadResult(out) ==
  LET parsed == IF out = <<>> THEN <<>> ELSE parseILinkStatus(out) IN
  IF DOMAIN parsed # {} THEN Merge(state, parsed) ELSE state

\* The discovery of try discTry settles.  ok: the services came back and
\* the loop over them ended; found: the iLink characteristics collected.
\* Otherwise it failed or timed out.  The characteristics are discovered
\* service by service and a failure for one service is swallowed, so when
\* the link drops during the loop the try still ends with what the
\* services before the drop have yielded.
DiscoveryResult(ok, found) ==
  /\ lastOp = NoOp
  /\ pc = "disc"
  /\ characteristics' = IF ok THEN found ELSE characteristics
  /\ IF ~ok \/ found = {}
     THEN \* the loop's catch; a further try checks the link once more
          /\ IF peripheral = 0 \/ pstate[peripheral] # "connected"
                \/ discTry = maxDiscoveryRetries
             THEN ConnectFails
             ELSE /\ discTry' = discTry + 1
                  /\ UNCHANGED <<pc, pstate, lastOp>>
          /\ UNCHANGED <<observer, characteristic, statusCharacteristic, reconnectAttempts>>
     ELSE IF "cmd" \notin found
     THEN \* target characteristic not found: disconnect, return false
          /\ ConnectFails
          /\ UNCHANGED <<observer, characteristic, statusCharacteristic, reconnectAttempts>>
     ELSE /\ characteristic' = connArg
          /\ statusCharacteristic' =
               IF "status" \in found THEN connArg ELSE statusCharacteristic
          /\ reconnectAttempts' = 0
          /\ discTry' = 0
          /\ UNCHANGED pstate
          /\ IF peripheral = 0
             THEN \* this.peripheral.once on null throws; the catch returns false
                  /\ pc' = "idle"
                  /\ lastOp' = [op |-> "connect", result |-> FALSE, yield |-> found]
                  /\ UNCHANGED observer
             ELSE /\ observer' = [observer EXCEPT ![peripheral] = TRUE]
                  /\ IF statusCharacteristic' # 0 /\ pstate[peripheral] = "connected"
                     THEN pc' = "initialRead" /\ lastOp' = NoOp
                     ELSE /\ pc' = "idle"
                          /\ lastOp' = [op |-> "connect", result |-> TRUE, yield |-> found]
  /\ UNCHANGED <<connArg, peripheral, state>>
  /\ ReadyAfterConnectStep
  /\ UNCHANGED <<mainVars, connVars, supVars, codecVars, heldVars, mgrVars>>

\* What connect returns after its initial readState has settled with out:
\* the try around the read swallows every error.
ConnectAfterRead_m(out) == out # <<>>

ConnectAfterRead(out) == TRUE

\* The initial readState of connect settles; connect returns.
InitialRead(out) ==
  /\ lastOp = NoOp
  /\ pc = "initialRead"
  /\ state' = ReadResult(out)
  /\ pc' = "idle"
  /\ lastOp' = [op |-> "connect", result |-> ConnectAfterRead(out),
                yield |-> characteristics, read |-> out, ready |-> isConnected,
                linkUp |-> pstate[connArg] = "connected",
                before |-> state, after |-> state']
  /\ UNCHANGED <<connArg, peripheral, pstate, observer, characteristic,
                 statusCharacteristic, characteristics, reconnectAttempts, discTry>>
  /\ ReadyAfterConnectStep
  /\ UNCHANGED <<mainVars, connVars, supVars, codecVars, heldVars, mgrVars>>

\* attemptReconnect(): count, and schedule a timer that does nothing.
attemptReconnect_m(n) == n + 1

attemptReconnect(n) == IF n >= maxReconnectAttempts THEN n ELSE n + 1

\* The link of handle h drops.  An observer registered on h by a successful
\* connect clears the session and calls attemptReconnect.
LinkLoss(h) ==
  /\ lastOp = NoOp
  /\ pstate[h] = "connected"
  /\ pstate' = [pstate EXCEPT ![h] = "disconnected"]
  /\ IF observer[h]
     THEN /\ characteristic' = 0
          /\ peripheral' = 0
          /\ reconnectAttempts' = attemptReconnect(reconnectAttempts)
          /\ observer' = [observer EXCEPT ![h] = FALSE]
     ELSE UNCHANGED <<characteristic, peripheral, reconnectAttempts, observer>>
  /\ lastOp' = NoOp
  /\ UNCHANGED <<pc, connArg, statusCharacteristic, characteristics, state, discTry>>
  /\ sessionReady' = IF h = connArg THEN FALSE ELSE sessionReady
  /\ UNCHANGED <<mainVars, connVars, supVars, codecVars, heldVars, mgrVars>>

\* disconnect()
Disconnect ==
  /\ lastOp = NoOp
  /\ IF peripheral # 0
     THEN /\ pstate' = Disconnected(pstate, peripheral)
          /\ peripheral' = 0
          /\ characteristic' = 0
     ELSE UNCHANGED <<pstate, peripheral, characteristic>>
  /\ lastOp' = [op |-> "disconnect"]
  /\ UNCHANGED <<pc, connArg, observer, statusCharacteristic, characteristics, state,
                 reconnectAttempts, discTry>>
  /\ sessionReady' = FALSE
  /\ UNCHANGED <<mainVars, connVars, supVars, codecVars, heldVars, mgrVars>>

Has(cmd, f) == f \in DOMAIN cmd

\* Brightness command: hub 0-255 to percent, and the byte that is sent.
BrightnessPercent(b) ==
  LET c == IF b > 255 THEN 255 ELSE IF b < 0 THEN 0 ELSE b IN (c * 100) \div 255
BrightnessByte_m(b) == (BrightnessPercent(b) * 250) \div 100

BrightnessByte(b) == (BrightnessPercent(b) * 255) \div 100

\* The frames sendCommand encodes, one per field that is set, in field order.
EncodedFrames(cmd) ==
  (IF Has(cmd, "state")
     THEN <<encodeILinkCommand(<<8, 5>>, IF cmd.state = "ON" THEN <<1>> ELSE <<0>>)>>
     ELSE <<>>)
  \o (IF Has(cmd, "brightness")
        THEN <<encodeILinkCommand(<<8, 1>>, <<BrightnessByte(cmd.brightness)>>)>>
        ELSE <<>>)
  \o (IF Has(cmd, "color") THEN <<encodeILinkCommand(<<8, 2>>, cmd.color)>> ELSE <<>>)

\* hexCommand is overwritten by each field: what is written is the last frame.
FramesToWrite(cmd) ==
  LET e == EncodedFrames(cmd) IN IF e = <<>> THEN <<>> ELSE <<e[Len(e)]>>

\* The optimistic update of this.state, made while the frames are encoded.
PowerAfter_m(cmd, s) ==
  IF Has(cmd, "state") THEN cmd.state = "ON"
  ELSE IF Has(cmd, "brightness") \/ Has(cmd, "color") THEN TRUE ELSE s.power

PowerAfter(cmd, s) ==
  IF Has(cmd, "brightness") \/ Has(cmd, "color") THEN TRUE
  ELSE IF Has(cmd, "state") THEN cmd.state = "ON" ELSE s.power

StateAfterCommand(cmd, s) ==
  Merge(s,
    Merge([power |-> PowerAfter(cmd, s)],
      Merge(IF Has(cmd, "brightness")
              THEN [brightness |-> BrightnessPercent(cmd.brightness)] ELSE <<>>,
            IF Has(cmd, "color") THEN [color |-> cmd.color] ELSE <<>>)))

\* What sendCommand's catch makes of a failed write.
WriteFailureResult_m == "threw"

WriteFailureResult == "false"

\* The guard at the top of sendCommand.
CommandGuard == characteristic # 0

\* sendCommand(cmd); writeOk tells whether characteristic.writeAsync resolves.
SendCommandStep(cmd, writeOk) ==
  LET frames == FramesToWrite(cmd) IN
  /\ lastOp = NoOp
  /\ IF ~CommandGuard
     THEN /\ lastOp' = [op |-> "sendCommand", cmd |-> cmd, ready |-> isConnected,
                        capability |-> characteristic # 0, chars |-> characteristics,
                        writes |-> <<>>, writeOk |-> FALSE, result |-> "false",
                        notified |-> 0, before |-> state, after |-> state]
          /\ UNCHANGED state
     ELSE /\ state' = StateAfterCommand(cmd, state)
          /\ lastOp' = [op |-> "sendCommand", cmd |-> cmd, ready |-> isConnected,
                        capability |-> characteristic # 0, chars |-> characteristics,
                        writes |-> frames,
                        writeOk |-> (frames # <<>> /\ writeOk),
                        result |-> IF frames = <<>> THEN "false"
                                   ELSE IF writeOk THEN "true" ELSE WriteFailureResult,
                        notified |-> IF frames # <<>> /\ writeOk THEN 1 ELSE 0,
                        before |-> state, after |-> state']
  /\ UNCHANGED <<pc, connArg, peripheral, pstate, observer, characteristic,
                 statusCharacteristic, characteristics, reconnectAttempts, discTry>>
  /\ UNCHANGED sessionReady
  /\ UNCHANGED <<mainVars, connVars, supVars, codecVars, mgrVars>>

SendCommand(cmd, writeOk) == SendCommandStep(cmd, writeOk) /\ UNCHANGED heldVars

\* readState(); out is what the read of the status characteristic brings.
ReadStateStep(out) ==
  /\ lastOp = NoOp
  /\ IF ~ReadStateGuard
     THEN /\ lastOp' = [op |-> "readState", ready |-> isConnected,
                        status |-> statusCharacteristic # 0, chars |-> characteristics,
                        reads |-> 0, out |-> <<>>, result |-> <<>>, notified |-> 0,
                        before |-> state, after |-> state]
          /\ UNCHANGED state
     ELSE /\ state' = ReadResult(out)
          /\ lastOp' = [op |-> "readState", ready |-> isConnected,
                        status |-> statusCharacteristic # 0, chars |-> characteristics,
                        reads |-> 1, out |-> out,
                        result |-> IF out # <<>> /\ DOMAIN parseILinkStatus(out) # {}
                                   THEN state' ELSE <<>>,
                        notified |-> IF out # <<>> /\ DOMAIN parseILinkStatus(out) # {}
                                     THEN 1 ELSE 0,
                        before |-> state, after |-> state']
  /\ UNCHANGED <<pc, connArg, peripheral, pstate, observer, characteristic,
                 statusCharacteristic, characteristics, reconnectAttempts, discTry>>
  /\ UNCHANGED sessionReady
  /\ UNCHANGED <<mainVars, connVars, supVars, codecVars, mgrVars>>

ReadState(out) == ReadStateStep(out) /\ UNCHANGED heldVars

\* The caller has taken the result of the call that returned.
Returned ==
  /\ lastOp # NoOp
  /\ lastOp' = NoOp
  /\ UNCHANGED <<pc, connArg, peripheral, pstate, observer, characteristic,
                 statusCharacteristic, characteristics, state, reconnectAttempts, discTry>>
  /\ UNCHANGED sessionReady
  /\ UNCHANGED <<mainVars, connVars, supVars, codecVars, heldVars, mgrVars>>

NextSession ==
  \/ \E h \in Handles : Connect(h)
  \/ SessLinkUp
  \/ SessLinkFails
  \/ \E ok \in BOOLEAN, found \in SUBSET {"cmd", "status"} : DiscoveryResult(ok, found)
  \/ \E out \in ReadOutcomes : InitialRead(out)
  \/ \E h \in Handles : LinkLoss(h)
  \/ Disconnect
  \/ \E cmd \in Commands, writeOk \in BOOLEAN : SendCommand(cmd, writeOk)
  \/ \E out \in ReadOutcomes : ReadState(out)
  \/ Returned

-----------------------------------------------------------------------------
(***************************************************************************)
(* The LightState values of a connected session: what sendCommand,         *)
(* readState and getState hand to the caller, and what the caller's writes *)
(* to such a value reach.  `held` is the value the caller took last;       *)
(* heldIsState and heldColor tell which of its objects are the session's.  *)
(***************************************************************************)

LightBrightness == {0 - 1, 0, 128, 255, 256}
LightCommands ==
  {Merge(Merge(a, b), c) :
     a \in {<<>>} \cup {[state |-> v] : v \in {"ON", "OFF"}},
     b \in {<<>>} \cup {[brightness |-> v] : v \in LightBrightness},
     c \in {<<>>} \cup {[color |-> v] : v \in HubColors}}

\* What the status characteristic may bring: frames of each recognized
\* commandId, with payloads of the expected and of other lengths, or an error.
LightFrames ==
  {encodeILinkCommand(<<8, 5>>, <<0>>), encodeILinkCommand(<<8, 1>>, <<128>>),
   encodeILinkCommand(<<8, 1>>, <<>>), encodeILinkCommand(<<8, 1>>, <<255, 255>>),
   encodeILinkCommand(<<8, 2>>, <<0, 255, 0>>),
   encodeILinkCommand(<<136, 21>>, <<255, 0, 0, 128>>), <<18, 52, 86>>}
LightOutcomes == LightFrames \cup {<<>>}

\* A session after a successful connect on handle 1.
LightInit ==
  /\ pc = "idle"
  /\ connArg = 1
  /\ peripheral = 1
  /\ pstate = [h \in Handles |-> IF h = 1 THEN "connected" ELSE "disconnected"]
  /\ observer = [h \in Handles |-> h = 1]
  /\ characteristic = 1
  /\ statusCharacteristic = 1
  /\ characteristics = {"cmd", "status"}
  /\ state = [power |-> FALSE, brightness |-> 100]
  /\ reconnectAttempts = 0
  /\ discTry = 0
  /\ lastOp = NoOp
  /\ sessionReady = TRUE
  /\ held = <<>>
  /\ heldIsState = FALSE
  /\ heldColor = FALSE

\* getState(): { ...this.state }, a new object whose color is this.state.color.
GetState ==
  /\ lastOp = NoOp
  /\ held' = state
  /\ heldIsState' = FALSE
  /\ heldColor' = Has(state, "color")
  /\ lastOp' = [op |-> "getState", result |-> state]
  /\ UNCHANGED <<pc, connArg, peripheral, pstate, observer, characteristic,
                 statusCharacteristic, characteristics, state, reconnectAttempts,
                 discTry, sessionReady>>
  /\ UNCHANGED <<mainVars, connVars, supVars, codecVars, mgrVars>>

\* sendCommand(cmd) writes the fields into the object this.state and gives
\* this.state.color a new object; after the write, onStateUpdate gets
\* { ...this.state }.  take: the caller keeps the value the callback got.
SendCommandHeld(cmd, writeOk, take) ==
  LET newColor == CommandGuard /\ Has(cmd, "color")
      handed == take /\ lastOp'.notified = 1
  IN
  /\ SendCommandStep(cmd, writeOk)
  /\ held' = IF handed \/ heldIsState THEN state' ELSE held
  /\ heldIsState' = (heldIsState /\ ~handed)
  /\ heldColor' = IF handed THEN Has(state', "color")
                  ELSE IF newColor THEN heldIsState ELSE heldColor

\* readState(): a parse with fields makes this.state a new object
\* { ...this.state, ...parsed }, hands { ...this.state } to onStateUpdate and
\* returns this.state.  via: which of the two the caller keeps, if any.
ReadStateHeld(out, via) ==
  LET updated == lastOp'.notified = 1
      newColor == updated /\ Has(parseILinkStatus(out), "color")
  IN
  /\ ReadStateStep(out)
  /\ held' = IF updated /\ via # "none" THEN state' ELSE held
  /\ heldIsState' = IF updated THEN via = "return" ELSE heldIsState
  /\ heldColor' = IF updated /\ via # "none" THEN Has(state', "color")
                  ELSE IF newColor THEN FALSE ELSE heldColor

\* The caller writes to the value it holds: to its power field, or to the r
\* field of its color object.
MutateHeld(field) ==
  /\ lastOp = NoOp
  /\ held # <<>>
  /\ field = "color" => Has(held, "color")
  /\ held' = IF field = "power" THEN [held EXCEPT !.power = ~@]
             ELSE [held EXCEPT !.color[1] = IF @ = 0 THEN 1 ELSE 0]
  /\ state' = IF field = "power"
              THEN IF heldIsState THEN held' ELSE state
              ELSE IF heldColor THEN [state EXCEPT !.color = held'.color] ELSE state
  /\ lastOp' = [op |-> "mutate", field |-> field, before |-> state, after |-> state']
  /\ UNCHANGED <<heldIsState, heldColor>>
  /\ UNCHANGED <<pc, connArg, peripheral, pstate, observer, characteristic,
                 statusCharacteristic, characteristics, reconnectAttempts,
                 discTry, sessionReady>>
  /\ UNCHANGED <<mainVars, connVars, supVars, codecVars, mgrVars>>

NextLight ==
  \/ GetState
  \/ \E cmd \in LightCommands, writeOk \in BOOLEAN, take \in BOOLEAN :
       SendCommandHeld(cmd, writeOk, take)
  \/ \E out \in LightOutcomes, via \in {"return", "callback", "none"} :
       ReadStateHeld(out, via)
  \/ \E field \in {"power", "color"} : MutateHeld(field)
  \/ Returned

-----------------------------------------------------------------------------
(***************************************************************************)
(* The session's reaction to 'disconnect' events: the handlers registered  *)
(* by connect, attemptReconnect and its timers.  connect is taken as two   *)
(* steps here, its start and its end.                                      *)
(***************************************************************************)

reconnectBaseMs == 1000
reconnectCapMs == 30000

\* Math.min(1000 * Math.pow(2, n), 30000), n the counter after its increment
ReconnectDelay(n) ==
  IF reconnectBaseMs * 2^n < reconnectCapMs THEN reconnectBaseMs * 2^n ELSE reconnectCapMs

Delays == {ReconnectDelay(n) : n \in 1..(maxReconnectAttempts + 1)}

\* One call of attemptReconnect with the counter at c.
ReconnectCall(c, wasReady, cause) ==
  [cause |-> cause, ready |-> wasReady, attempt |-> c, after |-> attemptReconnect(c),
   scheduled |-> attemptReconnect(c) # c,
   delay |-> IF attemptReconnect(c) # c THEN ReconnectDelay(attemptReconnect(c)) ELSE 0]

RECURSIVE HandlerRuns(_, _, _, _)
\* The n handlers of one 'disconnect' event run one after the other.
HandlerRuns(n, c, wasReady, cause) ==
  IF n = 0 THEN <<>>
  ELSE <<ReconnectCall(c, wasReady, cause)>>
         \o HandlerRuns(n - 1, attemptReconnect(c), FALSE, cause)

TimersAfter(runs) ==
  timers \cup {runs[k].delay : k \in {j \in 1..Len(runs) : runs[j].scheduled}}

SupInit ==
  /\ SessInit
  /\ listeners = [h \in Handles |-> 0]
  /\ timers = {}
  /\ schedules = <<>>

\* The handle h emits 'disconnect': every handler registered on it clears the
\* session and calls attemptReconnect.  cause: a link loss, or the
\* disconnectAsync of disconnect() or of connect's catch.
Emit(h, cause) ==
  LET runs == HandlerRuns(listeners[h], reconnectAttempts, isConnected, cause) IN
  /\ schedules' = runs
  /\ timers' = TimersAfter(runs)
  /\ listeners' = [listeners EXCEPT ![h] = 0]
  /\ reconnectAttempts' = IF runs = <<>> THEN reconnectAttempts ELSE runs[Len(runs)].after

\* connect(peripheral) starts: the handle is stored, the link is requested.
ConnectStart(h) ==
  /\ pc = "idle"
  /\ pc' = "link"
  /\ connArg' = h
  /\ peripheral' = h
  /\ pstate' = [pstate EXCEPT ![h] = IF @ = "connected" THEN @ ELSE "connecting"]
  /\ schedules' = <<>>
  /\ UNCHANGED <<observer, characteristic, statusCharacteristic, characteristics, state,
                 reconnectAttempts, discTry, lastOp, sessionReady, listeners, timers>>
  /\ UNCHANGED <<mainVars, connVars, codecVars, heldVars, mgrVars>>

\* The Ready value after connect has set the counter: a literal zero.
CounterAtReady_m == reconnectAttempts

CounterAtReady == 0

\* connect ends with the command characteristic found: the handles are cached,
\* the counter is reset and a disconnect handler is registered.
ConnectSucceeds ==
  /\ pc = "link"
  /\ pstate[connArg] # "disconnected"
  /\ peripheral # 0 => listeners[peripheral] < MaxListeners
  /\ pc' = "idle"
  /\ pstate' = [pstate EXCEPT ![connArg] = "connected"]
  /\ characteristic' = connArg
  /\ reconnectAttempts' = CounterAtReady
  /\ listeners' = IF peripheral = 0 THEN listeners
                  ELSE [listeners EXCEPT ![peripheral] = @ + 1]
  /\ UNCHANGED <<connArg, peripheral, observer, statusCharacteristic, characteristics,
                 state, discTry, lastOp, sessionReady, timers, schedules>>
  /\ UNCHANGED <<mainVars, connVars, codecVars, heldVars, mgrVars>>

\* connect ends in its catch: disconnectAsync on this.peripheral, which emits
\* 'disconnect' when the link was up (emit).
ConnectGivesUp(emit) ==
  /\ pc = "link"
  /\ pc' = "idle"
  /\ pstate' = Disconnected(pstate, peripheral)
  /\ IF emit /\ peripheral # 0 /\ pstate[peripheral] = "connected"
     THEN /\ Emit(peripheral, "catch")
          /\ IF listeners[peripheral] > 0
             THEN characteristic' = 0 /\ peripheral' = 0
             ELSE UNCHANGED <<characteristic, peripheral>>
     ELSE UNCHANGED <<characteristic, peripheral, reconnectAttempts, listeners, timers,
                      schedules>>
  /\ UNCHANGED <<connArg, observer, statusCharacteristic, characteristics, state, discTry,
                 lastOp, sessionReady>>
  /\ UNCHANGED <<mainVars, connVars, codecVars, heldVars, mgrVars>>

\* The link of handle h is lost.
LinkLost(h) ==
  /\ pstate[h] = "connected"
  /\ pstate' = [pstate EXCEPT ![h] = "disconnected"]
  /\ Emit(h, "loss")
  /\ IF listeners[h] > 0
     THEN characteristic' = 0 /\ peripheral' = 0
     ELSE UNCHANGED <<characteristic, peripheral>>
  /\ UNCHANGED <<pc, connArg, observer, statusCharacteristic, characteristics, state,
                 discTry, lastOp, sessionReady>>
  /\ UNCHANGED <<mainVars, connVars, codecVars, heldVars, mgrVars>>

\* disconnect(): disconnectAsync, which emits 'disconnect' when the link was
\* up (emit), then both fields are cleared.
DisconnectCalled(emit) ==
  /\ peripheral # 0
  /\ pstate' = Disconnected(pstate, peripheral)
  /\ IF emit /\ pstate[peripheral] = "connected"
     THEN Emit(peripheral, "disconnect")
     ELSE UNCHANGED <<reconnectAttempts, listeners, timers, schedules>>
  /\ peripheral' = 0
  /\ characteristic' = 0
  /\ UNCHANGED <<pc, connArg, observer, statusCharacteristic, characteristics, state,
                 discTry, lastOp, sessionReady>>
  /\ UNCHANGED <<mainVars, connVars, codecVars, heldVars, mgrVars>>

\* The reconnect timers with delay d fire; their callback is empty.
TimerFires(d) ==
  /\ d \in timers
  /\ timers' = timers \ {d}
  /\ UNCHANGED <<pc, connArg, peripheral, pstate, observer, characteristic,
                 statusCharacteristic, characteristics, state, reconnectAttempts, discTry,
                 lastOp, sessionReady, listeners, schedules>>
  /\ UNCHANGED <<mainVars, connVars, codecVars, heldVars, mgrVars>>

AnyTimerFires == \E d \in Delays : TimerFires(d)

NextSupervisor ==
  \/ \E h \in Handles : ConnectStart(h)
  \/ ConnectSucceeds
  \/ \E emit \in BOOLEAN : ConnectGivesUp(emit)
  \/ \E h \in Handles : LinkLost(h)
  \/ \E emit \in BOOLEAN : DisconnectCalled(emit)
  \/ AnyTimerFires

-----------------------------------------------------------------------------
(***************************************************************************)
(* Calls of the codec: encodeILinkCommand on a commandId and a payload,    *)
(* parseILinkStatus on the frame it returned or on a frame as received     *)
(* (cut short, or with other header bytes).                                *)
(***************************************************************************)

RECURSIVE SeqsUpTo(_, _)
SeqsUpTo(S, n) ==
  IF n = 0 THEN {<<>>}
  ELSE LET shorter == SeqsUpTo(S, n - 1)
       IN shorter \cup {Append(q, b) : q \in {x \in shorter : Len(x) = n - 1}, b \in S}

CodecBytes == {0, 1, 2, 255}
RecognizedCids == {<<136, 21>>, <<136, 20>>, <<8, 5>>, <<8, 1>>, <<8, 2>>}
CodecCids == RecognizedCids \cup {<<0, 0>>, <<8, 3>>, <<255, 255>>}
Headers == {<<85, 170>>, <<170, 85>>, <<85, 0>>}

CodecInit ==
  /\ codecPc = "input"
  /\ codecCid \in CodecCids
  /\ codecData \in SeqsUpTo(CodecBytes, MaxPayloadLen)
  /\ hex = <<>>
  /\ codecParsed = <<>>
  /\ command = <<>>

\* encodeILinkCommand(cid, data)
Encode ==
  /\ codecPc = "input"
  /\ hex' = encodeILinkCommand(codecCid, codecData)
  /\ codecPc' = "encoded"
  /\ UNCHANGED <<codecCid, codecData, codecParsed, command>>
  /\ UNCHANGED <<mainVars, connVars, sessVars, heldVars, mgrVars>>

\* parseILinkStatus on the frame encodeILinkCommand returned
ParseEncoded ==
  /\ codecPc = "encoded"
  /\ codecParsed' = parseILinkStatus(hex)
  /\ codecPc' = "roundtrip"
  /\ UNCHANGED <<codecCid, codecData, hex, command>>
  /\ UNCHANGED <<mainVars, connVars, sessVars, heldVars, mgrVars>>

\* The first `keep` bytes of a frame, its two header bytes replaced by hdr.
Received(frame, hdr, keep) ==
  SubSeq(<<hdr[1], hdr[2]>> \o SubSeq(frame, 3, Len(frame)), 1, keep)

\* parseILinkStatus on a frame as received
ParseReceived(hdr, keep) ==
  /\ codecPc = "input"
  /\ keep <= Len(codecData) + 6
  /\ hex' = Received(encodeILinkCommand(codecCid, codecData), hdr, keep)
  /\ codecParsed' = parseILinkStatus(hex')
  /\ codecPc' = "parsed"
  /\ UNCHANGED <<codecCid, codecData, command>>
  /\ UNCHANGED <<mainVars, connVars, sessVars, heldVars, mgrVars>>

\* Hub brightness, 0-255 and a little outside.
HubRange == (0 - HubMargin)..(255 + HubMargin)

BrightnessInit ==
  /\ codecPc = "command"
  /\ command \in {[brightness |-> h] : h \in HubRange}
  /\ codecCid = <<>>
  /\ codecData = <<>>
  /\ hex = <<>>
  /\ codecParsed = <<>>

\* sendCommand encodes the frame of a brightness command.
EncodeCommand ==
  /\ codecPc = "command"
  /\ codecCid' = <<8, 1>>
  /\ codecData' = <<BrightnessByte(command.brightness)>>
  /\ hex' = FramesToWrite(command)[1]
  /\ codecPc' = "encoded"
  /\ UNCHANGED <<codecParsed, command>>
  /\ UNCHANGED <<mainVars, connVars, sessVars, heldVars, mgrVars>>

NextBrightness ==
  \/ EncodeCommand
  \/ ParseEncoded

NextCodec ==
  \/ Encode
  \/ ParseEncoded
  \/ \E hdr \in Headers, keep \in 0..(MaxPayloadLen + 6) : ParseReceived(hdr, keep)

-----------------------------------------------------------------------------
(***************************************************************************)
(* BLEManager: scanForDevices, connectDevice, disconnectDevice,            *)
(* disconnectAll and the registry this.devices.  connectDevice calls for   *)
(* different config ids may overlap; each is taken from await to await.    *)
(* this.peripherals is written but read by no method and is left out.      *)
(***************************************************************************)

\* The ILinkDevice created by the a-th attempt of the c-th call for id d.
DevObj(d, c, a) == <<d, c, a>>

MgrInit ==
  /\ callPc = [d \in Devices |-> "idle"]
  /\ callDevice = [d \in Devices |-> NoDev]
  /\ callAttempt = [d \in Devices |-> 0]
  /\ tempDisconnected = [d \in Devices |-> <<>>]
  /\ calls = [d \in Devices |-> 0]
  /\ scanWait = [d \in Devices |-> "none"]
  /\ isScanning = FALSE
  /\ scanning = FALSE
  /\ linked = {}
  /\ mgrOp = NoOp
  /\ devices = [d \in Devices |-> NoDev]
  /\ deviceConfigs = {}

\* A scanForDevices call has returned [] and its caller has not run on yet:
\* the caller continues in the same turn of the event loop.
Immediate == \E d \in Devices : scanWait[d] = "empty"

\* The entries of this.devices whose device is connected, in id order.
ConnectedEntries(regs, cfgs, lnk) ==
  LET F[k \in 0..NumDevices] ==
        IF k = 0 THEN <<>>
        ELSE IF regs[k] # NoDev /\ regs[k] \in lnk /\ k \in cfgs
             THEN Append(F[k-1], <<k, regs[k]>>) ELSE F[k-1]
  IN F[NumDevices]

\* The assignment of the manager's variables.
MgrSet(pcs, devs, atts, temps, sw, isS, scn, regs, cfgs, lnk, op) ==
  /\ callPc' = pcs
  /\ callDevice' = devs
  /\ callAttempt' = atts
  /\ tempDisconnected' = temps
  /\ scanWait' = sw
  /\ isScanning' = isS
  /\ scanning' = scn
  /\ devices' = regs
  /\ deviceConfigs' = cfgs
  /\ linked' = lnk
  /\ mgrOp' = op
  /\ UNCHANGED <<mainRest, connVars, sessVars, codecVars, heldVars>>

\* Call d calls scanForDevices and goes on at position pos when it returns:
\* with isScanning set the call returns [] at once, otherwise the radio
\* starts scanning and a timer is set.
ScanRequested(d, pos, devs, atts, temps, isS, scn, regs, cfgs, lnk) ==
  MgrSet([callPc EXCEPT ![d] = pos], devs, atts, temps,
         [scanWait EXCEPT ![d] = IF isS THEN "empty" ELSE "timer"],
         TRUE, IF isS THEN scn ELSE TRUE, regs, cfgs, lnk, NoOp)

\* connectDevice of d returns res.
CallReturns(d, res, found, temps, isS, scn, regs, cfgs, lnk) ==
  MgrSet([callPc EXCEPT ![d] = "idle"], [callDevice EXCEPT ![d] = NoDev],
         [callAttempt EXCEPT ![d] = 0], [temps EXCEPT ![d] = <<>>],
         [scanWait EXCEPT ![d] = "none"], isS, scn, regs, cfgs, lnk,
         [op |-> "connectDevice", id |-> d, result |-> res, found |-> found,
          registry |-> regs[d], pending |-> temps[d]])

\* The reconnection loop over tempDisconnected, from its next entry on.
ReconnectFrom(d, temps, isS, scn, regs, cfgs, lnk) ==
  IF temps[d] = <<>>
  THEN CallReturns(d, callDevice[d], TRUE, temps, isS, scn, regs, cfgs, lnk)
  ELSE ScanRequested(d, "recScan", callDevice, callAttempt, temps, isS, scn, regs,
          cfgs, lnk)

\* "Stop scanning if active", then the scan for the device.
StopScanThenScan(d, temps, lnk) ==
  IF isScanning
  THEN MgrSet([callPc EXCEPT ![d] = "stopWait"], callDevice, callAttempt, temps,
              scanWait, FALSE, FALSE, devices, deviceConfigs, lnk, NoOp)
  ELSE ScanRequested(d, "scan", callDevice, callAttempt, temps, isScanning, scanning,
                     devices, deviceConfigs, lnk)

\* The number of connectDevice calls made so far.
CallsMade ==
  LET F[k \in 0..NumDevices] == IF k = 0 THEN 0 ELSE F[k-1] + calls[k]
  IN F[NumDevices]

\* connectDevice(config d) is called: it disconnects the connected devices
\* of the registry and waits 2 s when the registry has entries, otherwise it
\* goes on to the scan.
CallConnectDevice(d) ==
  /\ ~Immediate
  /\ callPc[d] = "idle"
  /\ CallsMade < MaxCalls
  /\ calls' = [calls EXCEPT ![d] = @ + 1]
  /\ LET entries == ConnectedEntries(devices, deviceConfigs, linked)
         temps == [tempDisconnected EXCEPT ![d] = entries]
         lnk == linked \ {entries[k][2] : k \in 1..Len(entries)}
     IN IF \E x \in Devices : devices[x] # NoDev
        THEN MgrSet([callPc EXCEPT ![d] = "tempWait"], callDevice, callAttempt, temps,
                    scanWait, isScanning, scanning, devices, deviceConfigs, lnk, NoOp)
        ELSE StopScanThenScan(d, temps, lnk)

\* The 2 s wait after the temporary disconnections is over.
TempWaitDone(d) ==
  /\ ~Immediate
  /\ callPc[d] = "tempWait"
  /\ StopScanThenScan(d, tempDisconnected, linked)
  /\ UNCHANGED calls

\* The 500 ms wait after stopping a scan is over.
StopWaitDone(d) ==
  /\ ~Immediate
  /\ callPc[d] = "stopWait"
  /\ ScanRequested(d, "scan", callDevice, callAttempt, tempDisconnected, isScanning,
                   scanning, devices, deviceConfigs, linked)
  /\ UNCHANGED calls

\* The scanForDevices call of d returns: its timer fires (the radio is told
\* to stop, isScanning is cleared), or it had returned [] at once.  found:
\* the list holds the peripheral looked for.
ScanDone(d, found) ==
  LET timer == scanWait[d] = "timer"
      isS == IF timer THEN FALSE ELSE isScanning
      scn == IF timer THEN FALSE ELSE scanning
      sw == [scanWait EXCEPT ![d] = "none"]
      a == IF callPc[d] = "scan" THEN 1 ELSE callAttempt[d]
      obj == DevObj(d, calls[d], a)
      rest == [tempDisconnected EXCEPT ![d] = Tail(@)]
  IN
  /\ scanWait[d] # "none"
  /\ timer => ~Immediate
  /\ ~timer => ~found
  /\ UNCHANGED calls
  /\ IF callPc[d] \in {"scan", "retryScan"}
     THEN IF found
          THEN MgrSet([callPc EXCEPT ![d] = "connecting"],
                      [callDevice EXCEPT ![d] = obj], [callAttempt EXCEPT ![d] = a],
                      tempDisconnected, sw, isS, scn, devices, deviceConfigs, linked,
                              NoOp)
          ELSE CallReturns(d, "null", FALSE, tempDisconnected, isS, scn, devices,
                  deviceConfigs, linked)
     ELSE IF found
          THEN MgrSet([callPc EXCEPT ![d] = "recConnecting"], callDevice, callAttempt,
                      tempDisconnected, sw, isS, scn, devices, deviceConfigs, linked,
                              NoOp)
          ELSE ReconnectFrom(d, rest, isS, scn, devices, deviceConfigs, linked)

\* device.connect(peripheral) of call d ends: true, false, or an error that
\* connectDevice's catch takes as recoverable or not.
ConnectResult(d, out) ==
  /\ ~Immediate
  /\ callPc[d] = "connecting"
  /\ UNCHANGED calls
  /\ IF out = "true"
     THEN ReconnectFrom(d, tempDisconnected, isScanning, scanning,
                        [devices EXCEPT ![d] = callDevice[d]], deviceConfigs \cup {d},
                        linked \cup {callDevice[d]})
     ELSE IF out \in {"false", "recoverable"} /\ callAttempt[d] < maxConnectionAttempts
     THEN MgrSet([callPc EXCEPT ![d] = "retryWait"], [callDevice EXCEPT ![d] = NoDev],
                 [callAttempt EXCEPT ![d] = @ + 1], tempDisconnected, scanWait,
                 isScanning, scanning, devices, deviceConfigs,
                         linked \ {callDevice[d]}, NoOp)
     ELSE CallReturns(d, "null", TRUE, tempDisconnected, isScanning, scanning, devices,
             deviceConfigs,
                      linked)

\* The 2 s wait before a retry is over: re-scan for a fresh peripheral.
RetryWaitDone(d) ==
  /\ ~Immediate
  /\ callPc[d] = "retryWait"
  /\ ScanRequested(d, "retryScan", callDevice, callAttempt, tempDisconnected,
                   isScanning, scanning, devices, deviceConfigs, linked)
  /\ UNCHANGED calls

\* tempDevice.connect(reconnectPeripheral) ends: whatever it returns, the
\* device is put back into the registry and 2 s are waited; when it throws,
\* the entry is deleted and the loop goes on.
ReconnectResult(d, out) ==
  LET x == tempDisconnected[d][1][1]
      o == tempDisconnected[d][1][2]
      rest == [tempDisconnected EXCEPT ![d] = Tail(@)]
  IN
  /\ ~Immediate
  /\ callPc[d] = "recConnecting"
  /\ UNCHANGED calls
  /\ IF out = "throw"
     THEN ReconnectFrom(d, rest, isScanning, scanning, [devices EXCEPT ![x] = NoDev],
                        deviceConfigs \ {x}, linked)
     ELSE MgrSet([callPc EXCEPT ![d] = "recWait"], callDevice, callAttempt, rest,
                 scanWait, isScanning, scanning, [devices EXCEPT ![x] = o], deviceConfigs,
                 IF out = "true" THEN linked \cup {o} ELSE linked, NoOp)

\* The 2 s wait after a reconnection is over.
ReconnectWaitDone(d) ==
  /\ ~Immediate
  /\ callPc[d] = "recWait"
  /\ ReconnectFrom(d, tempDisconnected, isScanning, scanning, devices, deviceConfigs,
          linked)
  /\ UNCHANGED calls

\* disconnectDevice(x)
DisconnectDevice(x) ==
  /\ ~Immediate
  /\ UNCHANGED calls
  /\ MgrSet(callPc, callDevice, callAttempt, tempDisconnected, scanWait, isScanning,
            scanning, [devices EXCEPT ![x] = NoDev], deviceConfigs \ {x},
            linked \ {devices[x]},
            [op |-> "disconnectDevice", id |-> x, known |-> devices[x] # NoDev,
             before |-> devices, after |-> [devices EXCEPT ![x] = NoDev]])

\* disconnectAll()
DisconnectAll ==
  /\ ~Immediate
  /\ UNCHANGED calls
  /\ MgrSet(callPc, callDevice, callAttempt, tempDisconnected, scanWait, isScanning,
            scanning, [x \in Devices |-> NoDev], {},
            linked \ {devices[x] : x \in Devices},
            [op |-> "disconnectAll"])

NextManager ==
  \/ \E d \in Devices : CallConnectDevice(d)
  \/ \E d \in Devices : TempWaitDone(d)
  \/ \E d \in Devices : StopWaitDone(d)
  \/ \E d \in Devices, found \in BOOLEAN : ScanDone(d, found)
  \/ \E d \in Devices, out \in {"true", "false", "recoverable", "fatal"} :
       ConnectResult(d, out)
  \/ \E d \in Devices : RetryWaitDone(d)
  \/ \E d \in Devices, out \in {"true", "false", "throw"} : ReconnectResult(d, out)
  \/ \E d \in Devices : ReconnectWaitDone(d)
  \/ \E x \in Devices : DisconnectDevice(x)
  \/ DisconnectAll

-----------------------------------------------------------------------------
(***************************************************************************)
(* One session that is given a fresh handle: connect(peripheral) may be    *)
(* called with a handle other than the one the session holds, as the       *)
(* manager does after a re-scan.  The steps are those of the session's     *)
(* reaction to 'disconnect' events, over one handle more.                  *)
(***************************************************************************)

FreshHandles == 1..(MaxHandles + 1)

FreshInit ==
  /\ pc = "idle"
  /\ connArg = 0
  /\ peripheral = 0
  /\ pstate = [h \in FreshHandles |-> "disconnected"]
  /\ observer = [h \in FreshHandles |-> FALSE]
  /\ characteristic = 0
  /\ statusCharacteristic = 0
  /\ characteristics = {}
  /\ state = [power |-> FALSE, brightness |-> 100]
  /\ reconnectAttempts = 0
  /\ discTry = 0
  /\ lastOp = NoOp
  /\ sessionReady = FALSE
  /\ listeners = [h \in FreshHandles |-> 0]
  /\ timers = {}
  /\ schedules = <<>>

NextFresh ==
  \/ \E h \in FreshHandles : ConnectStart(h)
  \/ ConnectSucceeds
  \/ \E emit \in BOOLEAN : ConnectGivesUp(emit)
  \/ \E h \in FreshHandles : LinkLost(h)
  \/ \E emit \in BOOLEAN : DisconnectCalled(emit)
  \/ AnyTimerFires

-----------------------------------------------------------------------------
(* The specifications *)

ConnIdle ==
  /\ cdPc = "idle" /\ attempt = 0 /\ device = FALSE /\ peripheralState = "disconnected"
  /\ discAttempt = 0 /\ lastError = "none" /\ chars = NoChars /\ connectReturn = "none"
  /\ cdResult = "none" /\ connectCalls = 0 /\ envKinds = {}

SessIdle ==
  /\ pc = "off" /\ connArg = 0 /\ peripheral = 0 /\ pstate = <<>> /\ observer = <<>>
  /\ characteristic = 0 /\ statusCharacteristic = 0 /\ characteristics = {}
  /\ state = <<>> /\ reconnectAttempts = 0 /\ discTry = 0 /\ lastOp = <<>>
  /\ sessionReady = FALSE /\ listeners = <<>> /\ timers = {} /\ schedules = <<>>

SupIdle == listeners = <<>> /\ timers = {} /\ schedules = <<>>

CodecIdle ==
  /\ codecPc = "off" /\ codecCid = <<>> /\ codecData = <<>> /\ hex = <<>>
  /\ codecParsed = <<>> /\ command = <<>>

HeldIdle == held = <<>> /\ heldIsState = FALSE /\ heldColor = FALSE

MgrIdle ==
  /\ callPc = <<>> /\ callDevice = <<>> /\ callAttempt = <<>> /\ tempDisconnected = <<>>
  /\ calls = <<>> /\ scanWait = <<>> /\ isScanning = FALSE /\ scanning = FALSE
  /\ linked = {} /\ mgrOp = <<>> /\ deviceConfigs = {}

MainRestIdle ==
  /\ mainPc = "idle" /\ scannedPeripherals = {} /\ parCall = <<>> /\ race = <<>>
  /\ seqCall = <<>> /\ connectedDevices = <<>> /\ connectedIds = {} /\ i = 0
  /\ registered = {} /\ ready = {} /\ seqCalls = <<>> /\ readyAtSettle = {}

MainIdle ==
  /\ mainPc = "idle" /\ scannedPeripherals = {} /\ parCall = <<>> /\ race = <<>>
  /\ seqCall = <<>> /\ connectedDevices = <<>> /\ connectedIds = {} /\ i = 0
  /\ devices = <<>> /\ registered = {} /\ ready = {} /\ seqCalls = <<>>
  /\ readyAtSettle = {}

InitMain == MainInit /\ ConnIdle /\ SessIdle /\ CodecIdle /\ HeldIdle /\ MgrIdle
SpecMain == InitMain /\ [][NextMain]_vars

InitConn == MainIdle /\ ConnInit /\ SessIdle /\ CodecIdle /\ HeldIdle /\ MgrIdle
SpecConn == InitConn /\ [][NextConn]_vars

\* The steps of connectDevice that a timer of the code bounds (the scan
\* timer, the 60 s link timer, the waits, the discovery timers) or that do
\* not wait at all; the initial readState has no timer and is not among them.
ConnTimed ==
  \/ \E found \in BOOLEAN : InitialScan(found)
  \/ \E found \in BOOLEAN : Retry(found)
  \/ LinkUp
  \/ LinkTimeout
  \/ LinkRejected
  \/ Verify
  \/ DiscDelayDone
  \/ \E out \in {"ok", "timeout", "error", "noService"} : SvcResult(out)
  \/ \E out \in {"ok", "timeout", "error"}, found \in SUBSET {"cmd", "status"} :
       ChrResult(out, found)
SpecConnTimed == InitConn /\ [][NextConn]_vars /\ WF_vars(ConnTimed)

InitSession == MainIdle /\ ConnIdle /\ SessInit /\ SupIdle /\ CodecIdle /\ HeldIdle /\ MgrIdle

\* Timers that are due do fire.
InitSupervisor == MainIdle /\ ConnIdle /\ SupInit /\ CodecIdle /\ HeldIdle /\ MgrIdle
SpecSupervisor == InitSupervisor /\ [][NextSupervisor]_vars /\ WF_vars(AnyTimerFires)
SpecSession == InitSession /\ [][NextSession]_vars

InitFresh == MainIdle /\ ConnIdle /\ FreshInit /\ CodecIdle /\ HeldIdle /\ MgrIdle
SpecFresh == InitFresh /\ [][NextFresh]_vars

InitCodec == MainIdle /\ ConnIdle /\ SessIdle /\ CodecInit /\ HeldIdle /\ MgrIdle
SpecCodec == InitCodec /\ [][NextCodec]_vars

InitBrightness == MainIdle /\ ConnIdle /\ SessIdle /\ BrightnessInit /\ HeldIdle /\ MgrIdle
SpecBrightness == InitBrightness /\ [][NextBrightness]_vars

InitLight == MainIdle /\ ConnIdle /\ LightInit /\ SupIdle /\ CodecIdle /\ MgrIdle
SpecLight == InitLight /\ [][NextLight]_vars

InitManager ==
  MainRestIdle /\ ConnIdle /\ SessIdle /\ CodecIdle /\ HeldIdle /\ MgrInit
SpecManager == InitManager /\ [][NextManager]_vars

-----------------------------------------------------------------------------
(* Claims about main() *)

SeqPhase == mainPc \in {"seqDelay", "seqWait"}
Settled == mainPc \notin {"start", "parallel"}
StartupOver == mainPc \in {"running", "exit"}

\* C1: during the sequential fallback phase at most one connection attempt is
\* in flight, counting attempts started in the concurrent phase that have not
\* resolved yet.
C1_OneAttemptInFlight == SeqPhase => Cardinality(InFlight) <= 1

\* C2 (as stated): once startup is over, every device that was not Ready when
\* the concurrent phase settled has had exactly one sequential attempt, and
\* every device that was Ready then has had none.
C2_Original ==
  StartupOver =>
    \A d \in Devices : seqCalls[d] = IF d \in readyAtSettle THEN 0 ELSE 1

\* C2 (amended): a device gets exactly one sequential connectDevice call when
\* the startup scan found it and its concurrent attempt did not resolve to a
\* device within the 90 s; every other device, in particular every device that
\* was Ready when the concurrent phase settled, gets none.
C2_SequentialAttempts ==
  /\ \A d \in Devices : seqCalls[d] <= 1
  /\ \A d \in Devices :
       seqCalls[d] = 1 => d \in scannedPeripherals /\ race[d] = "null" /\ d \notin readyAtSettle
  /\ StartupOver =>
       \A d \in Devices :
         seqCalls[d] = IF d \in scannedPeripherals /\ race[d] # "device" THEN 1 ELSE 0

C2_Witness ==
  /\ StartupOver
  /\ \E d \in Devices : seqCalls[d] = 1
  /\ \E d \in Devices : d \in readyAtSettle /\ seqCalls[d] = 0

\* C3: if every configured device is Ready when the concurrent phase settles,
\* the sequential phase is skipped: main goes straight on to running and no
\* sequential connection attempt is ever started.
C3_SequentialSkipped ==
  (Settled /\ readyAtSettle = Devices) =>
    (mainPc = "running" /\ \A d \in Devices : seqCall[d] = "none" /\ seqCalls[d] = 0)

C3_Witness == Settled /\ readyAtSettle = Devices /\ mainPc = "running"

-----------------------------------------------------------------------------
(* Claims about connectDevice and connect *)

DiscoveryTimeoutsOnly ==
  envKinds # {} /\ envKinds \subseteq {"svcTimeout", "chrTimeout"}

\* C4: when every scan finds the device, every link request succeeds and every
\* discovery (of services or of characteristics) times out, connectDevice makes
\* exactly maxConnectionAttempts connect calls and then returns null.
C4_ExactlyThreeAttempts ==
  (cdPc = "done" /\ DiscoveryTimeoutsOnly) =>
    (connectCalls = maxConnectionAttempts /\ cdResult = "null")

\* C5: connect returns true only when discovery yielded the command
\* characteristic, and connectDevice gives up on a device whose discovery
\* yielded no command characteristic only after maxConnectionAttempts attempts.
C5_CommandCapabilityRequired ==
  /\ connectReturn = "true" => "cmd" \in chars
  /\ (cdPc = "done" /\ chars # NoChars /\ "cmd" \notin chars) =>
       (cdResult = "null" /\ attempt = maxConnectionAttempts)


-----------------------------------------------------------------------------
(* Claims about one session: SpecSession *)

SentCommand == lastOp # NoOp /\ lastOp.op = "sendCommand"
ReadStatus == lastOp # NoOp /\ lastOp.op = "readState"

\* C6: when discovery yields the command characteristic but not the status
\* characteristic, connect still returns true; in that Ready session every
\* readState returns null and sendCommand works as usual (true exactly when
\* its write succeeds).
C6_WriteOnlySession ==
  /\ (lastOp # NoOp /\ lastOp.op = "connect" /\ "yield" \in DOMAIN lastOp
        /\ lastOp.yield = {"cmd"}) => lastOp.result = TRUE
  /\ (ReadStatus /\ lastOp.ready /\ lastOp.chars = {"cmd"}) =>
       (lastOp.result = <<>> /\ lastOp.reads = 0)
  /\ (SentCommand /\ lastOp.ready /\ lastOp.chars = {"cmd"} /\ lastOp.writes # <<>>) =>
       (lastOp.result = "true" <=> lastOp.writeOk)

\* C7: sendCommand on a Ready session writes one frame per field set in the
\* command, in field order: k fields set, k writes.
C7_OneWritePerField ==
  (SentCommand /\ lastOp.ready) => lastOp.writes = EncodedFrames(lastOp.cmd)

\* C8: sendCommand never throws; without the command characteristic it
\* returns false and writes nothing; it returns false when the write fails,
\* and true only after a write that succeeded.
C8_SendCommandNeverThrows ==
  SentCommand =>
    /\ lastOp.result \in {"true", "false"}
    /\ ~lastOp.capability => (lastOp.result = "false" /\ lastOp.writes = <<>>)
    /\ (lastOp.writes # <<>> /\ ~lastOp.writeOk) => lastOp.result = "false"
    /\ lastOp.result = "true" => (lastOp.writes # <<>> /\ lastOp.writeOk)

\* A command sent after a link loss finds no command characteristic.
C8_Witness ==
  /\ SentCommand /\ ~lastOp.capability /\ lastOp.cmd # <<>>
  /\ reconnectAttempts > 0 /\ lastOp.result = "false"

\* C9: after a successful sendCommand that sets brightness or color the
\* state's power is true, also when the command carries state OFF; a command
\* that sets only state sets power to that value.
C9_PowerImplied ==
  (SentCommand /\ lastOp.result = "true") =>
    /\ (Has(lastOp.cmd, "brightness") \/ Has(lastOp.cmd, "color")) =>
         (lastOp.after.power = TRUE /\ state.power = TRUE)
    /\ DOMAIN lastOp.cmd = {"state"} => state.power = (lastOp.cmd.state = "ON")

C9_Witness ==
  /\ SentCommand /\ lastOp.result = "true"
  /\ Has(lastOp.cmd, "state") /\ lastOp.cmd.state = "OFF" /\ Has(lastOp.cmd, "brightness")
  /\ state.power = TRUE

\* C10: readState is a no-op returning null whenever the status
\* characteristic is absent or the session is not Ready: no read is issued,
\* the state is unchanged and no state update is notified.
C10_ReadStatusNoOp ==
  (ReadStatus /\ (~lastOp.status \/ ~lastOp.ready)) =>
    /\ lastOp.result = <<>>
    /\ lastOp.reads = 0
    /\ lastOp.after = lastOp.before
    /\ lastOp.notified = 0

\* The fragment parsed from what the last readState read (empty when the read
\* failed).
ParsedByRead == IF lastOp.out = <<>> THEN <<>> ELSE parseILinkStatus(lastOp.out)

\* C11: a readState whose read succeeds with a non-empty parse overwrites
\* exactly the parsed fields of the state, keeps every other field and returns
\* the merged state; a read with an empty parse, or a read that fails, returns
\* null and leaves the state unchanged.
C11_ReadMerges ==
  (ReadStatus /\ lastOp.reads = 1) =>
    IF DOMAIN ParsedByRead # {}
    THEN /\ DOMAIN state = DOMAIN lastOp.before \cup DOMAIN ParsedByRead
         /\ \A k \in DOMAIN ParsedByRead : state[k] = ParsedByRead[k]
         /\ \A k \in DOMAIN lastOp.before \ DOMAIN ParsedByRead :
              state[k] = lastOp.before[k]
         /\ lastOp.result = state
    ELSE lastOp.result = <<>> /\ state = lastOp.before

\* A read that brought a brightness frame into a state that has a color.
C11_Witness ==
  /\ ReadStatus /\ lastOp.reads = 1
  /\ DOMAIN ParsedByRead = {"power", "brightness"}
  /\ "color" \in DOMAIN lastOp.before /\ "color" \in DOMAIN state
  /\ state.brightness # lastOp.before.brightness

\* C12: whenever no connect is running, isConnected() is true exactly when the
\* session is Ready: the most recent connect returned true and neither
\* disconnect() nor a loss of its link has happened since.
C12_IsConnectedIffReady ==
  pc = "idle" => (isConnected <=> sessionReady)

-----------------------------------------------------------------------------
(* Claims about the reconnection timers: SpecSupervisor *)

Min(a, b) == IF a < b THEN a ELSE b

\* The last 'disconnect' event was a link loss on a Ready session with the
\* counter below the maximum.
LossBelowMax ==
  /\ schedules # <<>>
  /\ schedules[1].cause = "loss" /\ schedules[1].ready
  /\ schedules[1].attempt < maxReconnectAttempts

\* C13: after a link loss on a Ready session whose counter is below the
\* maximum, a connection attempt for the device is eventually started, given
\* that timers that are due fire.
C13_ReconnectEventually == LossBelowMax ~> (pc = "link")

\* C14: the delay scheduled for a link loss is min(1000 * 2^attempt, 30000),
\* attempt being the counter before the call (0 for the first link loss after
\* Ready), and never exceeds 30000.
C14_BackoffDelay ==
  \A k \in 1..Len(schedules) :
    schedules[k].scheduled =>
      /\ schedules[k].delay = Min(reconnectBaseMs * 2^(schedules[k].attempt), reconnectCapMs)
      /\ schedules[k].delay <= reconnectCapMs

\* C15: the counter never exceeds maxReconnectAttempts; a handler that runs
\* with the counter at the maximum schedules nothing and increments nothing;
\* and once a 'disconnect' event has reached the session it is not connected
\* before another connect is started.
C15_CounterCapped ==
  /\ reconnectAttempts <= maxReconnectAttempts
  /\ \A k \in 1..Len(schedules) :
       /\ schedules[k].after <= maxReconnectAttempts
       /\ schedules[k].attempt >= maxReconnectAttempts =>
            (~schedules[k].scheduled /\ schedules[k].after = schedules[k].attempt)
       /\ schedules[k].attempt < maxReconnectAttempts => schedules[k].scheduled
  /\ schedules # <<>> => ~isConnected

C15_Witness ==
  /\ schedules # <<>>
  /\ schedules[Len(schedules)].attempt = maxReconnectAttempts
  /\ ~schedules[Len(schedules)].scheduled
  /\ reconnectAttempts = maxReconnectAttempts

\* C16: a session that is connected has its counter at zero (every successful
\* connect resets it), so the link loss that follows a successful connect is
\* handled with the counter at 0.
C16_CounterReset ==
  /\ isConnected => reconnectAttempts = 0
  /\ (schedules # <<>> /\ schedules[1].ready) => schedules[1].attempt = 0

\* A link loss on a session that had been connected again after an earlier loss.
C16_Witness ==
  /\ schedules # <<>> /\ schedules[1].ready /\ schedules[1].cause = "loss"
  /\ schedules[1].attempt = 0
  /\ Cardinality(timers) > 1

-----------------------------------------------------------------------------
(* Claims about the codec: SpecCodec *)

\* The frame is one that encodeILinkCommand returned.
Encoded == codecPc \in {"encoded", "roundtrip"}

\* C17: the frame encodeILinkCommand returns for a commandId and a payload is
\* 55 AA, the payload length, the two commandId bytes, the payload and one
\* checksum byte in 0..255, such that length + cidHi + cidLo + the payload
\* bytes + checksum is 0 modulo 256.
C17_EncodedFrame ==
  Encoded =>
    LET len == Len(codecData) IN
    /\ Len(hex) = len + 6
    /\ hex[1] = 85 /\ hex[2] = 170
    /\ hex[3] = len
    /\ hex[4] = codecCid[1] /\ hex[5] = codecCid[2]
    /\ SubSeq(hex, 6, len + 5) = codecData
    /\ hex[len + 6] \in 0..255
    /\ (len + codecCid[1] + codecCid[2] + Sum(codecData) + hex[len + 6]) % 256 = 0

\* A payload whose sum with length and commandId is a positive multiple of 256.
C17_Witness ==
  /\ codecPc = "encoded"
  /\ Len(codecData) >= 1
  /\ Len(codecData) + codecCid[1] + codecCid[2] + Sum(codecData) >= 256
  /\ hex[Len(hex)] = 0

\* The frame given to parseILinkStatus is one the contract calls for an empty
\* result on: other header bytes, fewer than 7 bytes, or a commandId outside
\* the recognized set.
Rejectable ==
  \/ Len(hex) < 7
  \/ hex[1] # 85 \/ hex[2] # 170
  \/ <<hex[4], hex[5]>> \notin RecognizedCids

\* C18: parseILinkStatus returns the empty result for every frame with other
\* header bytes, every frame shorter than 7 bytes (a recognized commandId
\* included) and every frame with an unrecognized commandId.
C18_RejectsInvalid ==
  (codecPc \in {"roundtrip", "parsed"} /\ Rejectable) => codecParsed = <<>>

\* C19: parseILinkStatus on encodeILinkCommand(commandId, payload) gives back
\* the fields of the payload: the power bit for 0805, the three colour bytes
\* for 0802, floor(byte / 2.55) for 0801, colour and scaled brightness for
\* 8815 and 8814.
C19_RoundTrip ==
  codecPc = "roundtrip" =>
    /\ (codecCid = <<8, 5>> /\ codecData \in {<<0>>, <<1>>}) =>
         codecParsed = [power |-> (codecData = <<1>>)]
    /\ (codecCid = <<8, 2>> /\ Len(codecData) = 3) =>
         /\ "color" \in DOMAIN codecParsed
         /\ codecParsed.color = codecData
    /\ (codecCid = <<8, 1>> /\ Len(codecData) = 1) =>
         /\ "brightness" \in DOMAIN codecParsed
         /\ codecParsed.brightness = (codecData[1] * 100) \div 255
    /\ (codecCid \in {<<136, 21>>, <<136, 20>>} /\ Len(codecData) = 4) =>
         /\ DOMAIN codecParsed = {"power", "brightness", "color"}
         /\ codecParsed.color = SubSeq(codecData, 1, 3)
         /\ codecParsed.brightness = (codecData[4] * 100) \div 255

\* C20: for a combined-status frame with at least 4 payload bytes,
\* parseILinkStatus returns the first three bytes as colour,
\* floor(fourth byte / 2.55) as brightness, and power on.
C20_CombinedStatus ==
  ( /\ codecPc \in {"roundtrip", "parsed"}
    /\ Len(hex) >= 10 /\ hex[1] = 85 /\ hex[2] = 170
    /\ <<hex[4], hex[5]>> \in {<<136, 21>>, <<136, 20>>} ) =>
    codecParsed = [power |-> TRUE,
                   brightness |-> (hex[9] * 100) \div 255,
                   color |-> <<hex[6], hex[7], hex[8]>>]

-----------------------------------------------------------------------------
(* Claims about the brightness path: SpecBrightness *)

\* floor(h * 100 / 255) of a hub brightness in 0..255
HubPercent(h) == (h * 100) \div 255

\* C21: the frame sendCommand encodes for hub brightness 255 parses to a
\* brightness of at least 99; for every hub brightness h in 0..255 the parsed
\* brightness is at most floor(h * 100 / 255) and at least one less.
C21_BrightnessPath ==
  (codecPc = "roundtrip" /\ command.brightness \in 0..255) =>
    /\ "brightness" \in DOMAIN codecParsed
    /\ codecParsed.brightness <= HubPercent(command.brightness)
    /\ codecParsed.brightness >= HubPercent(command.brightness) - 1
    /\ command.brightness = 255 => codecParsed.brightness >= 99

\* Hub brightness 255 has gone through sendCommand's encoding and the parse.
C21_Witness ==
  /\ codecPc = "roundtrip"
  /\ command.brightness = 255
  /\ hex = <<85, 170, 1, 8, 1, 255, 247>>
  /\ codecParsed.brightness >= 99

-----------------------------------------------------------------------------
(* Claims about the LightState values of a session: SpecLight *)

\* C22: a write by the caller to a LightState value it was handed (by
\* getState, by readState's return value or by the state-update callback),
\* to a field of the value or to its color object, leaves this.state, and so
\* what a later getState returns, as it was.
C22_NoSharedState ==
  lastOp.op = "mutate" => lastOp.after = lastOp.before

\* C27: the brightness of this.state is an integer in 0..100, whatever
\* commands were sent and whatever frames were read.
C27_BrightnessRange ==
  state.brightness \in 0..100

-----------------------------------------------------------------------------
(* Claims about the capabilities of a session: SpecSession *)

\* C26: while no connect is running and the session is not Ready (never
\* connected, disconnected, link lost, or last connect failed), neither the
\* command characteristic nor the status characteristic is held.
C26_CapabilitiesOnlyWhenReady ==
  (pc = "idle" /\ ~sessionReady) => (characteristic = 0 /\ statusCharacteristic = 0)

-----------------------------------------------------------------------------
(* Claims about failed attempts: SpecConn *)

\* C28: when connectDevice has returned failure, the link of its last
\* attempt has been torn down: the handle is neither connected nor
\* connecting.
C28_FailedLinkTornDown ==
  (cdPc = "done" /\ cdResult = "null") =>
    peripheralState \notin {"connected", "connecting"}

-----------------------------------------------------------------------------
(* Claims about handles and timeouts in main(): SpecMain *)

\* C29: a connection attempt is never started on a handle that a failed
\* attempt has invalidated.  Every handle main uses comes from the one scan
\* made before the concurrent phase, so no sequential connectDevice call is
\* started for a device whose concurrent call has failed.
C29_NoHandleReuse ==
  [][\A d \in Devices :
       (seqCall[d] = "none" /\ seqCall'[d] = "pending") => parCall[d] # "null"]_vars

\* C30: when the timer has won the race against a connectDevice call, the
\* later completion of that call has no effect: its device does not become
\* Ready, and is registered neither with the manager nor with the bus gateway.
C30_LateCompletionIgnored ==
  \A d \in Devices :
    (race[d] = "null" /\ parCall[d] = "device") =>
      /\ devices[d] # ParObj(d)
      /\ ParObj(d) \notin registered
      /\ ParObj(d) \notin ready

\* C23: at most one scan is active at any time: of the scanForDevices calls
\* that wait for their duration timer there is at most one, and the scan of
\* that call is still running (nothing but its own timer has ended it),
\* also when connectDevice calls are interleaved.
C23_OneScan ==
  /\ Cardinality({d \in Devices : scanWait[d] = "timer"}) <= 1
  /\ \A d \in Devices : scanWait[d] = "timer" => (scanning /\ isScanning)

\* C24: scanning and link establishment are mutually exclusive: no scan is
\* running while a connect to a peripheral is in flight.
C24_ScanExcludesConnect ==
  ~(scanning /\ \E d \in Devices : callPc[d] \in {"connecting", "recConnecting"})

\* C25: the registry tracks connection outcomes: when connectDevice(config)
\* returns a device (and no disconnect has removed the id's entry and
\* config meanwhile), getDevice(config.id) is that device; after
\* disconnectDevice(id) and disconnectAll, getDevice is undefined for the
\* affected ids; disconnectDevice of an unknown id changes nothing; and
\* connectDevice returns null when the scan does not find the device.
C25_RegistryTracksOutcomes ==
  /\ (mgrOp.op = "connectDevice" /\ mgrOp.result # "null"
        /\ mgrOp.id \in deviceConfigs) =>
        mgrOp.registry = mgrOp.result
  /\ (mgrOp.op = "connectDevice" /\ ~mgrOp.found) => mgrOp.result = "null"
  /\ mgrOp.op = "disconnectDevice" =>
        /\ devices[mgrOp.id] = NoDev
        /\ ~mgrOp.known => mgrOp.after = mgrOp.before
  /\ mgrOp.op = "disconnectAll" => \A x \in Devices : devices[x] = NoDev

\* C31: the manager never scans while a device link is connected: a scan
\* in progress implies that no device of the manager is connected.
C31_NoScanWhileConnected == scanning => linked = {}

\* C32: every device that connectDevice has temporarily disconnected is
\* given a reconnection attempt before connectDevice returns, whether the
\* new device's connection succeeded or failed: at the return no entry of
\* tempDisconnected is left that the reconnection loop has not taken.
C32_TempDisconnectedReconnected ==
  mgrOp.op = "connectDevice" => mgrOp.pending = <<>>

\* C38: registry invariant: whenever no connectDevice call is executing,
\* every device stored in this.devices is connected (its most recent
\* connect returned true and the manager has not disconnected it since);
\* a device whose reconnection returned false, or which was left
\* disconnected, is not in the registry.
C38_RegistryHoldsConnected ==
  (\A d \in Devices : callPc[d] = "idle") =>
    \A x \in Devices : devices[x] # NoDev => devices[x] \in linked

\* C40: a sendCommand that returns false leaves this.state unchanged and
\* notifies no state update, both when the command capability is absent
\* and when the write fails.
C40_FalseLeavesState ==
  (lastOp.op = "sendCommand" /\ lastOp.result = "false") =>
    /\ lastOp.after = lastOp.before
    /\ lastOp.notified = 0

C37_TrueMeansReady ==
  (lastOp.op = "connect" /\ lastOp.result = TRUE) =>
    (isConnected /\ characteristic # 0 /\ pstate[connArg] = "connected")

\* C34: when the link has dropped while discovery is in flight (before the
\* link-loss observer is registered), the attempt fails: no step takes the
\* connect on to its initial read or to a return of true, and the session
\* does not become Ready.
C34_DropDuringDiscoveryFails ==
  [][(pc = "disc" /\ pstate[connArg] # "connected") =>
       /\ pc' # "initialRead"
       /\ ~(lastOp'.op = "connect" /\ lastOp'.result = TRUE)
       /\ ~sessionReady']_vars

\* C35: attemptReconnect is called only for an unexpected link loss: the
\* 'disconnect' event of an explicit disconnect() (or of the teardown in
\* connect's catch) increments no counter and schedules no reconnection.
C35_OnlyLinkLossReconnects ==
  \A k \in DOMAIN schedules : schedules[k].cause = "loss"

\* C39: a link loss of a handle that the session no longer holds (a later
\* connect has replaced it by a fresh handle) does not affect the current
\* link: the command capability and the handle stay, and attemptReconnect
\* is not called (the counter stays).
C39_StaleLossIgnored ==
  [][\A h \in FreshHandles :
       (peripheral # 0 /\ h # peripheral
          /\ pstate[h] = "connected" /\ pstate'[h] = "disconnected") =>
         /\ characteristic' = characteristic
         /\ peripheral' = peripheral
         /\ reconnectAttempts' = reconnectAttempts]_vars

\* C33: every connectDevice call eventually reaches a terminal outcome (a
\* device or null), even if a radio operation never completes.
C33_ConnectDeviceTerminates == <>(cdPc = "done")


=============================================================================
